---- MODULE Spec2Model ----
(***************************************************************************)
(* Lock-free single-producer / single-consumer queues.                     *)
(*                                                                         *)
(*   bounded   : src/src/spsc/bounded_spsc/inner_spsc.rs  (BoundedSpsc)    *)
(*               src/src/spsc/bounded_spsc/channel.rs     (Sender/Receiver)*)
(*   unbounded : src/src/spsc/unbounded_spsc/raw_spsc.rs  (RawSpsc/Segment)*)
(*               src/src/spsc/unbounded_spsc/channel.rs   (Sender/Receiver)*)
(*                                                                         *)
(* Every atomic load and store of push and pop is one step of the thread   *)
(* that performs it; thread-local computation is folded into the step of   *)
(* the shared access that precedes it.  Interleavings are sequentially     *)
(* consistent.                                                             *)
(***************************************************************************)
EXTENDS Integers, Sequences, FiniteSets, TLC

\* ------------------------------------------------------------------ bounds
\* largest capacity handed to BoundedSpscChannel::split
MaxCap == 3
\* calls made by the single-threaded bounded harness
MaxOps == 6
\* values accepted by the concurrent bounded queue
MaxPushB == 4
\* values sent by the bounded retry harness (mod.rs multithreaded_push_pop)
RetryCount == 4

\* log2 of the segment size of the unbounded queue.  raw_spsc.rs 11-12 fixes
\* SEGMENT_SIZE = 128 = 2^7 and MASK = 0x7F; the model keeps the shape (a
\* power of two and its mask) at a size whose segments fill within the run.
SegBits == 2
\* the values the unbounded producer sends beyond one segment's worth (the
\* tests send 3 * SEGMENT_SIZE: enough to fill and leave several segments)
Extra == 4

\* payloads handed to the bounded queue (the values of mod.rs full_and_empty)
Values == {42, 99}

\* a slot of MaybeUninit<T> that was never written
Uninit == -1

VARIABLES
    \* ---- BoundedSpsc<T> (inner_spsc.rs 59-68)
    capacity,     \* Array::capacity
    next_head,    \* BoundedSpsc::next_head   (AtomicUsize)
    tail,         \* BoundedSpsc::tail        (AtomicUsize)
    buffer,       \* Array::buffer            (slot index -> value or Uninit)
    \* ---- the producer inside BoundedSpsc::push
    ppc,          \* position of the producer thread
    p_value,      \* push: value
    p_curr_head,  \* push: curr_head
    p_next_head,  \* push: next_head (the local)
    p_res,        \* what the last push returned
    \* ---- the consumer inside BoundedSpsc::pop
    cpc,          \* position of the consumer thread
    c_curr_tail,  \* pop: curr_tail
    c_value,      \* pop: value
    c_res,        \* what the last pop returned
    \* ---- what the callers observed
    p_arg,        \* the value the caller handed to the push in progress
    pushed,       \* values of the pushes that returned Ok, in order
    popped,       \* values of the pops that returned Some, in order
    hist,         \* the calls of the single-threaded harness, in order
    \* ---- is_empty / is_full called through a handle, and the teardown
    obs,          \* handle -> its frame inside is_empty / is_full
    o_res,        \* what the last is_empty / is_full returned, and to whom
    destructed,   \* the slots destructed by BoundedSpsc::drop, in order
    noted,        \* handle -> the answer its caller kept from is_full / is_empty
    \* ---- the atomics as Release stores and Acquire loads leave them
    threads,      \* the number of threads the two handles are used from
    mo,           \* next_head / tail -> every value stored in it, in order
    view,         \* handle -> the latest store of the other side's index
                  \* that its thread has loaded (a position in mo)
    \* ---- RawSpsc<T> (raw_spsc.rs 41-44) and the heap of Segment<T>
    q_head,       \* RawSpsc::head  (AtomicPtr: an index into segments)
    q_tail,       \* RawSpsc::tail  (AtomicPtr)
    q_tail_mo,    \* every store to RawSpsc::tail, in order
    segments,     \* every Segment ever allocated, by address
    u_prod,       \* the producer's frame inside RawSpsc::push
    u_cons,       \* the consumer's frame inside RawSpsc::pop
    u_c_res,      \* what the last RawSpsc::pop returned
    \* ---- what the callers observed
    u_pushed,     \* values of the pushes that returned, in order
    u_popped,     \* values of the pops that returned Some, in order
    dropped,      \* values destructed by Segment::drop, in order
    uaf,          \* a thread touched a segment after it was freed
    phase         \* "pushing", "popping" (no push since the first pop), "mixed"

bvars == <<capacity, next_head, tail, buffer, ppc, p_value, p_curr_head,
           p_next_head, p_res, cpc, c_curr_tail, c_value, c_res, p_arg,
           pushed, popped, hist>>

uvars == <<q_head, q_tail, q_tail_mo, segments, u_prod, u_cons, u_c_res, u_pushed,
           u_popped, dropped, uaf, phase>>

ovars == <<obs, o_res, destructed, noted>>

mvars == <<threads, mo, view>>

vars == <<bvars, ovars, uvars, mvars>>

\* ------------------------------------------------------------- results
NoRes == [ok |-> FALSE, val |-> Uninit, set |-> FALSE]
\* Ok(()) of push
OkUnit == [ok |-> TRUE, val |-> Uninit, set |-> TRUE]
\* Err(value) of push
Err(v) == [ok |-> FALSE, val |-> v, set |-> TRUE]
\* Some(value) of pop
Some(v) == [ok |-> TRUE, val |-> v, set |-> TRUE]
\* None of pop
None == [ok |-> FALSE, val |-> Uninit, set |-> TRUE]

PushEvent(arg, res) == [op |-> "push", arg |-> arg, ok |-> res.ok, ret |-> res.val]
PopEvent(res) == [op |-> "pop", arg |-> Uninit, ok |-> res.ok, ret |-> res.val]

\* ------------------------------------------------------ BoundedSpsc
\* mutant of Advance: the index wraps one position late
Advance_LateWrap(i, cap) == (i + 1) * (IF (i + 1) <= cap THEN 1 ELSE 0)

\* inner_spsc.rs 163-164 / 202-203: (i + 1) * ((i + 1) < capacity) as usize
Advance(i, cap) == (i + 1) * (IF (i + 1) < cap THEN 1 ELSE 0)

\* Array::get: assume_init_read of a slot; a slot never written holds
\* arbitrary bits
Get(buf, i) == IF buf[i] = Uninit THEN Values ELSE {buf[i]}

\* the two handles of channel.rs: Sender (57-92) and Receiver (94-128); both
\* forward is_empty / is_full to the shared BoundedSpsc
Handles == {"sender", "receiver"}

\* the frame of a handle that is not inside is_empty / is_full
IdleFrame == [pc |-> "idle", curr_head |-> 0, next_head |-> 0]

\* handle h got res back from call
Answer(h, call, res) == [handle |-> h, call |-> call, res |-> res]

\* the caller of a handle has kept no answer
NoNote == [set |-> FALSE, at |-> 0]

\* ------------------------------------------- Release / Acquire atomics
\* the index a handle's side stores to: push stores next_head (171), pop
\* stores tail (205)
Owner(loc) == IF loc = "next_head" THEN "sender" ELSE "receiver"

\* the stores of index loc that a load(Acquire) / load(Relaxed) made through
\* handle h may read from.  A thread reads its own latest store; of the other
\* thread's stores it reads the one it loaded last or any later one: a
\* Release store and an Acquire load of another index are not ordered with
\* each other.  With both handles on one thread every store is its own
Readable(h, loc) ==
    IF threads = 1 \/ Owner(loc) = h THEN {Len(mo[loc])}
    ELSE view[h]..Len(mo[loc])

\* handle h's thread has loaded store number t of index loc
Observe(h, loc, t) ==
    IF threads = 1 \/ Owner(loc) = h THEN view
    ELSE [view EXCEPT ![h] = t]

\* BoundedSpsc::new(capacity), BoundedSpscChannel::split(capacity)
InitQueue(caps) ==
    /\ capacity \in caps
    /\ next_head = 0
    /\ tail = 0
    /\ buffer = [i \in 0..(capacity - 1) |-> Uninit]
    /\ ppc = "idle" /\ p_value = Uninit /\ p_curr_head = 0 /\ p_next_head = 0
    /\ p_res = NoRes
    /\ cpc = "idle" /\ c_curr_tail = 0 /\ c_value = Uninit
    /\ c_res = NoRes
    /\ p_arg = Uninit
    /\ pushed = <<>> /\ popped = <<>> /\ hist = <<>>
    /\ obs = [h \in Handles |-> IdleFrame]
    /\ o_res = Answer("none", "none", FALSE)
    /\ destructed = <<>>
    /\ noted = [h \in Handles |-> NoNote]
    /\ threads \in {1, 2}
    /\ mo = [loc \in {"next_head", "tail"} |-> <<0>>]
    /\ view = [h \in Handles |-> 1]

\* push, lines 157-164: the call, the relaxed load of next_head, the wrap
PushLoadHead(v) ==
    /\ ppc = "idle"
    /\ ppc' = "check"
    /\ p_arg' = v
    /\ p_value' = v
    /\ p_curr_head' = next_head
    /\ p_next_head' = Advance(next_head, capacity)
    /\ UNCHANGED mvars
    /\ UNCHANGED uvars
    /\ UNCHANGED ovars
    /\ UNCHANGED <<capacity, next_head, tail, buffer, p_res, cpc, c_curr_tail,
                   c_value, c_res, pushed, popped, hist>>

\* mutant of PushFull: the slot is written before the full test
PushFull_Clobbers(log) ==
    /\ ppc = "check"
    /\ \E t \in Readable("sender", "tail") :
          /\ p_next_head = mo.tail[t]
          /\ view' = Observe("sender", "tail", t)
    /\ buffer' = [buffer EXCEPT ![p_curr_head] = p_value]
    /\ ppc' = "idle"
    /\ p_res' = Err(p_value)
    /\ hist' = IF log THEN Append(hist, PushEvent(p_arg, Err(p_value))) ELSE hist
    /\ UNCHANGED <<threads, mo>>
    /\ UNCHANGED uvars
    /\ UNCHANGED ovars
    /\ UNCHANGED <<capacity, next_head, tail, p_value, p_curr_head,
                   p_next_head, cpc, c_curr_tail, c_value, c_res, p_arg,
                   pushed, popped>>

\* mutant of PushFull: the full test compares curr_head, not the advanced
\* index, with tail
PushFull_WrongIndex(log) ==
    /\ ppc = "check"
    /\ \E t \in Readable("sender", "tail") :
          /\ p_curr_head = mo.tail[t]
          /\ view' = Observe("sender", "tail", t)
    /\ ppc' = "idle"
    /\ p_res' = Err(p_value)
    /\ hist' = IF log THEN Append(hist, PushEvent(p_arg, Err(p_value))) ELSE hist
    /\ UNCHANGED <<threads, mo>>
    /\ UNCHANGED uvars
    /\ UNCHANGED ovars
    /\ UNCHANGED <<capacity, next_head, tail, buffer, p_value, p_curr_head,
                   p_next_head, cpc, c_curr_tail, c_value, c_res, p_arg,
                   pushed, popped>>

\* mutant of PushFull: a full queue makes push wait for the consumer
PushFull_Waits(log) ==
    /\ ppc = "check"
    /\ \E t \in Readable("sender", "tail") :
          /\ p_next_head = mo.tail[t]
          /\ view' = Observe("sender", "tail", t)
    /\ UNCHANGED <<threads, mo>>
    /\ UNCHANGED bvars
    /\ UNCHANGED uvars
    /\ UNCHANGED ovars

\* push, lines 166-168: the acquire load of tail; full: return Err(value)
PushFull(log) ==
    /\ ppc = "check"
    /\ \E t \in Readable("sender", "tail") :
          /\ p_next_head = mo.tail[t]
          /\ view' = Observe("sender", "tail", t)
    /\ ppc' = "idle"
    /\ p_res' = Err(p_value)
    /\ hist' = IF log THEN Append(hist, PushEvent(p_arg, Err(p_value))) ELSE hist
    /\ UNCHANGED <<threads, mo>>
    /\ UNCHANGED uvars
    /\ UNCHANGED ovars
    /\ UNCHANGED <<capacity, next_head, tail, buffer, p_value, p_curr_head,
                   p_next_head, cpc, c_curr_tail, c_value, c_res, p_arg,
                   pushed, popped>>

\* mutant of PushNotFull: no full test, the push always goes on
PushNotFull_NoTest ==
    /\ ppc = "check"
    /\ ppc' = "insert"
    /\ UNCHANGED mvars
    /\ UNCHANGED uvars
    /\ UNCHANGED ovars
    /\ UNCHANGED <<capacity, next_head, tail, buffer, p_value, p_curr_head,
                   p_next_head, p_res, cpc, c_curr_tail, c_value, c_res, p_arg,
                   pushed, popped, hist>>

\* push, line 166: the acquire load of tail; not full
PushNotFull ==
    /\ ppc = "check"
    /\ \E t \in Readable("sender", "tail") :
          /\ p_next_head # mo.tail[t]
          /\ view' = Observe("sender", "tail", t)
    /\ ppc' = "insert"
    /\ UNCHANGED <<threads, mo>>
    /\ UNCHANGED uvars
    /\ UNCHANGED ovars
    /\ UNCHANGED <<capacity, next_head, tail, buffer, p_value, p_curr_head,
                   p_next_head, p_res, cpc, c_curr_tail, c_value, c_res, p_arg,
                   pushed, popped, hist>>

\* push, line 170: buffer.insert(curr_head, value)
PushInsert ==
    /\ ppc = "insert"
    /\ buffer' = [buffer EXCEPT ![p_curr_head] = p_value]
    /\ ppc' = "store"
    /\ UNCHANGED mvars
    /\ UNCHANGED uvars
    /\ UNCHANGED ovars
    /\ UNCHANGED <<capacity, next_head, tail, p_value, p_curr_head,
                   p_next_head, p_res, cpc, c_curr_tail, c_value, c_res, p_arg,
                   pushed, popped, hist>>

\* push, lines 171-172: the release store of next_head; return Ok(())
PushStore(log) ==
    /\ ppc = "store"
    /\ next_head' = p_next_head
    /\ ppc' = "idle"
    /\ p_res' = OkUnit
    /\ pushed' = Append(pushed, p_arg)
    /\ hist' = IF log THEN Append(hist, PushEvent(p_arg, OkUnit)) ELSE hist
    /\ mo' = [mo EXCEPT !.next_head = Append(@, p_next_head)]
    /\ UNCHANGED <<threads, view>>
    /\ UNCHANGED uvars
    /\ UNCHANGED ovars
    /\ UNCHANGED <<capacity, tail, buffer, p_value, p_curr_head,
                   p_next_head, cpc, c_curr_tail, c_value, c_res, p_arg,
                   popped>>

\* pop, line 191: the call and the relaxed load of tail
PopLoadTail ==
    /\ cpc = "idle"
    /\ cpc' = "check"
    /\ c_curr_tail' = tail
    /\ UNCHANGED mvars
    /\ UNCHANGED uvars
    /\ UNCHANGED ovars
    /\ UNCHANGED <<capacity, next_head, tail, buffer, ppc, p_value,
                   p_curr_head, p_next_head, p_res, c_value, c_res, p_arg,
                   pushed, popped, hist>>

\* pop, lines 193-195: the acquire load of next_head; empty: return None
PopEmpty(log) ==
    /\ cpc = "check"
    /\ \E t \in Readable("receiver", "next_head") :
          /\ mo.next_head[t] = c_curr_tail
          /\ view' = Observe("receiver", "next_head", t)
    /\ cpc' = "idle"
    /\ c_res' = None
    /\ hist' = IF log THEN Append(hist, PopEvent(None)) ELSE hist
    /\ UNCHANGED <<threads, mo>>
    /\ UNCHANGED uvars
    /\ UNCHANGED ovars
    /\ UNCHANGED <<capacity, next_head, tail, buffer, ppc, p_value,
                   p_curr_head, p_next_head, p_res, c_curr_tail, c_value,
                   p_arg, pushed, popped>>

\* mutant of PopNotEmpty: no empty test, the pop always goes on
PopNotEmpty_NoTest ==
    /\ cpc = "check"
    /\ cpc' = "get"
    /\ UNCHANGED mvars
    /\ UNCHANGED uvars
    /\ UNCHANGED ovars
    /\ UNCHANGED <<capacity, next_head, tail, buffer, ppc, p_value,
                   p_curr_head, p_next_head, p_res, c_curr_tail, c_value,
                   c_res, p_arg, pushed, popped, hist>>

\* pop, line 193: the acquire load of next_head; not empty
PopNotEmpty ==
    /\ cpc = "check"
    /\ \E t \in Readable("receiver", "next_head") :
          /\ mo.next_head[t] # c_curr_tail
          /\ view' = Observe("receiver", "next_head", t)
    /\ cpc' = "get"
    /\ UNCHANGED <<threads, mo>>
    /\ UNCHANGED uvars
    /\ UNCHANGED ovars
    /\ UNCHANGED <<capacity, next_head, tail, buffer, ppc, p_value,
                   p_curr_head, p_next_head, p_res, c_curr_tail, c_value,
                   c_res, p_arg, pushed, popped, hist>>

\* pop, line 197: buffer.get(curr_tail)
PopGet ==
    /\ cpc = "get"
    /\ c_value' \in Get(buffer, c_curr_tail)
    /\ cpc' = "store"
    /\ UNCHANGED mvars
    /\ UNCHANGED uvars
    /\ UNCHANGED ovars
    /\ UNCHANGED <<capacity, next_head, tail, buffer, ppc, p_value,
                   p_curr_head, p_next_head, p_res, c_curr_tail, c_res, p_arg,
                   pushed, popped, hist>>

\* mutant of PopStore: tail is stored back without being advanced
PopStore_NoAdvance(log) ==
    /\ cpc = "store"
    /\ tail' = c_curr_tail
    /\ cpc' = "idle"
    /\ c_res' = Some(c_value)
    /\ popped' = Append(popped, c_value)
    /\ hist' = IF log THEN Append(hist, PopEvent(Some(c_value))) ELSE hist
    /\ mo' = [mo EXCEPT !.tail = Append(@, c_curr_tail)]
    /\ UNCHANGED <<threads, view>>
    /\ UNCHANGED uvars
    /\ UNCHANGED ovars
    /\ UNCHANGED <<capacity, next_head, buffer, ppc, p_value, p_curr_head,
                   p_next_head, p_res, c_curr_tail, c_value, p_arg, pushed>>

\* mutant of PopStore: the pop also moves next_head to the new tail
PopStore_MovesHead(log) ==
    /\ cpc = "store"
    /\ tail' = Advance(c_curr_tail, capacity)
    /\ next_head' = Advance(c_curr_tail, capacity)
    /\ cpc' = "idle"
    /\ c_res' = Some(c_value)
    /\ popped' = Append(popped, c_value)
    /\ hist' = IF log THEN Append(hist, PopEvent(Some(c_value))) ELSE hist
    /\ mo' = [mo EXCEPT !.tail = Append(@, Advance(c_curr_tail, capacity)),
                       !.next_head = Append(@, Advance(c_curr_tail, capacity))]
    /\ UNCHANGED <<threads, view>>
    /\ UNCHANGED uvars
    /\ UNCHANGED ovars
    /\ UNCHANGED <<capacity, buffer, ppc, p_value, p_curr_head,
                   p_next_head, p_res, c_curr_tail, c_value, p_arg, pushed>>

\* pop, lines 202-206: the wrap, the release store of tail; return Some(value)
PopStore(log) ==
    /\ cpc = "store"
    /\ tail' = Advance(c_curr_tail, capacity)
    /\ cpc' = "idle"
    /\ c_res' = Some(c_value)
    /\ popped' = Append(popped, c_value)
    /\ hist' = IF log THEN Append(hist, PopEvent(Some(c_value))) ELSE hist
    /\ mo' = [mo EXCEPT !.tail = Append(@, Advance(c_curr_tail, capacity))]
    /\ UNCHANGED <<threads, view>>
    /\ UNCHANGED uvars
    /\ UNCHANGED ovars
    /\ UNCHANGED <<capacity, next_head, buffer, ppc, p_value, p_curr_head,
                   p_next_head, p_res, c_curr_tail, c_value, p_arg, pushed>>

\* is_empty, line 212, left operand: the acquire load of next_head
IsEmptyLoadHead(h) ==
    /\ obs[h].pc = "idle"
    /\ \E t \in Readable(h, "next_head") :
          /\ obs' = [obs EXCEPT ![h] = [@ EXCEPT !.pc = "is_empty",
                                                 !.curr_head = mo.next_head[t]]]
          /\ view' = Observe(h, "next_head", t)
    /\ UNCHANGED <<threads, mo>>
    /\ UNCHANGED bvars
    /\ UNCHANGED uvars
    /\ UNCHANGED <<o_res, destructed, noted>>

\* is_empty, line 212, right operand: the acquire load of tail; the comparison
IsEmptyLoadTail(h) ==
    /\ obs[h].pc = "is_empty"
    /\ obs' = [obs EXCEPT ![h] = IdleFrame]
    /\ \E t \in Readable(h, "tail") :
          /\ o_res' = Answer(h, "is_empty", obs[h].curr_head = mo.tail[t])
          /\ view' = Observe(h, "tail", t)
    /\ UNCHANGED <<threads, mo>>
    /\ UNCHANGED bvars
    /\ UNCHANGED uvars
    /\ UNCHANGED <<destructed, noted>>

\* mutant of IsFullLoadHead: the index is advanced without the wrap
IsFullLoadHead_NoWrap(h) ==
    /\ obs[h].pc = "idle"
    /\ \E t \in Readable(h, "next_head") :
          /\ obs' = [obs EXCEPT ![h] = [@ EXCEPT !.pc = "is_full",
                                      !.curr_head = mo.next_head[t],
                                      !.next_head = mo.next_head[t] + 1]]
          /\ view' = Observe(h, "next_head", t)
    /\ UNCHANGED <<threads, mo>>
    /\ UNCHANGED bvars
    /\ UNCHANGED uvars
    /\ UNCHANGED <<o_res, destructed, noted>>

\* is_full, lines 222-223: the acquire load of next_head, the wrap
IsFullLoadHead(h) ==
    /\ obs[h].pc = "idle"
    /\ \E t \in Readable(h, "next_head") :
          /\ obs' = [obs EXCEPT ![h] = [@ EXCEPT !.pc = "is_full",
                                      !.curr_head = mo.next_head[t],
                                      !.next_head = Advance(mo.next_head[t], capacity)]]
          /\ view' = Observe(h, "next_head", t)
    /\ UNCHANGED <<threads, mo>>
    /\ UNCHANGED bvars
    /\ UNCHANGED uvars
    /\ UNCHANGED <<o_res, destructed, noted>>

\* mutant of IsFullLoadTail: the unadvanced head index is compared with tail
IsFullLoadTail_ComparesHead(h) ==
    /\ obs[h].pc = "is_full"
    /\ obs' = [obs EXCEPT ![h] = IdleFrame]
    /\ \E t \in Readable(h, "tail") :
          /\ o_res' = Answer(h, "is_full", obs[h].curr_head = mo.tail[t])
          /\ view' = Observe(h, "tail", t)
    /\ UNCHANGED <<threads, mo>>
    /\ UNCHANGED bvars
    /\ UNCHANGED uvars
    /\ UNCHANGED <<destructed, noted>>

\* is_full, line 224: the acquire load of tail; the comparison
IsFullLoadTail(h) ==
    /\ obs[h].pc = "is_full"
    /\ obs' = [obs EXCEPT ![h] = IdleFrame]
    /\ \E t \in Readable(h, "tail") :
          /\ o_res' = Answer(h, "is_full", obs[h].next_head = mo.tail[t])
          /\ view' = Observe(h, "tail", t)
    /\ UNCHANGED <<threads, mo>>
    /\ UNCHANGED bvars
    /\ UNCHANGED uvars
    /\ UNCHANGED <<destructed, noted>>

\* no handle is inside is_empty / is_full
Quiet == \A h \in Handles : obs[h].pc = "idle"

\* impl Drop for BoundedSpsc, lines 240-247: the walk from tail to head;
\* every slot on the way is destructed (assume_init_drop)
RECURSIVE DropWalk(_, _, _, _)
DropWalk(buf, idx, head, cap) ==
    IF idx = head THEN <<>>
    ELSE <<[slot |-> idx, val |-> buf[idx]]>>
             \o DropWalk(buf, Advance(idx, cap), head, cap)

\* mutant of DropQueue: the walk starts at slot 0, not at tail
DropQueue_FromZero ==
    /\ ppc = "idle" /\ cpc = "idle" /\ Quiet
    /\ destructed' = DropWalk(buffer, 0, next_head, capacity)
    /\ ppc' = "dropped"
    /\ cpc' = "dropped"
    /\ UNCHANGED <<capacity, next_head, tail, buffer, p_value, p_curr_head,
                   p_next_head, p_res, c_curr_tail, c_value, c_res, p_arg,
                   pushed, popped, hist, obs, o_res, noted>>
    /\ UNCHANGED mvars
    /\ UNCHANGED uvars

\* impl Drop for BoundedSpsc (234-250).  drop takes &mut self: it runs when
\* the last handle is gone, so no call is in progress and none follows
DropQueue ==
    /\ ppc = "idle" /\ cpc = "idle" /\ Quiet
    /\ destructed' = DropWalk(buffer, tail, next_head, capacity)
    /\ ppc' = "dropped"
    /\ cpc' = "dropped"
    /\ UNCHANGED <<capacity, next_head, tail, buffer, p_value, p_curr_head,
                   p_next_head, p_res, c_curr_tail, c_value, c_res, p_arg,
                   pushed, popped, hist, obs, o_res, noted>>
    /\ UNCHANGED mvars
    /\ UNCHANGED uvars

\* ------------------------------------------------------ Segment<T>
\* raw_spsc.rs 11: SEGMENT_SIZE (a power of two)
SEGMENT_SIZE == 2 ^ SegBits
\* raw_spsc.rs 12: MASK (SEGMENT_SIZE - 1, all low bits set)
MASK == SEGMENT_SIZE - 1

\* the null pointer (raw_spsc.rs 145: null_mut)
NULL == 0

\* a & b on usize
BitAnd(a, b) ==
    LET And[x \in Nat, y \in Nat] ==
            IF x = 0 \/ y = 0 THEN 0
            ELSE (x % 2) * (y % 2) + 2 * And[x \div 2, y \div 2]
    IN  And[a, b]

\* raw_spsc.rs 163 / 189 / 233-234: (i + 1) & MASK
SegAdvance(i) == BitAnd(i + 1, MASK)

\* a store to an atomic: the value, and the number of Release stores its
\* thread had made when it was made (0: the value the atomic was created
\* with, which every thread that has the address sees)
Stored(at, val) == [at |-> at, val |-> val]

\* the latest store in h that is ordered before the loading thread's loads:
\* an Acquire load that reads a Release store orders every earlier store of
\* that thread before the loads that follow; acq is the number of the other
\* thread's stores ordered so
Floor(h, acq) ==
    CHOOSE i \in 1..Len(h) :
        /\ h[i].at <= acq
        /\ \A j \in (i + 1)..Len(h) : h[j].at > acq

\* the stores in h that a load by the other thread may read from: the latest
\* one ordered before it, or any later one.  One thread reads its own latest
ReadableU(h, acq) ==
    IF threads = 1 THEN {Len(h)} ELSE Floor(h, acq)..Len(h)

\* the thread has read store e with an Acquire load
Acquired(acq, e) ==
    IF threads = 1 THEN acq ELSE IF e.at > acq THEN e.at ELSE acq

\* Segment::new (137-153)
NewSegment ==
    [next_head |-> 0,
     tail |-> 0,
     ptr |-> [i \in 0..(SEGMENT_SIZE - 1) |-> Uninit],
     next_block |-> NULL,
     mo_head |-> <<Stored(0, 0)>>,
     mo_tail |-> <<Stored(0, 0)>>,
     mo_next |-> <<Stored(0, NULL)>>,
     live |-> TRUE,
     frees |-> 0]

\* the slots from index `from` up to, excluding, index `to`, in ring order
RECURSIVE RingSeq(_, _, _)
RingSeq(ptr, from, to) ==
    IF from = to THEN <<>>
    ELSE <<ptr[from]>> \o RingSeq(ptr, SegAdvance(from), to)

\* mutant of SegmentDrop: the walk starts at slot 0, not at tail
SegmentDrop_FromZero(seg) == RingSeq(seg.ptr, 0, seg.next_head)

\* impl Drop for Segment (221-244): destructs the slots from tail to
\* next_head, then deallocates
SegmentDrop(seg) == RingSeq(seg.ptr, seg.tail, seg.next_head)

\* Box::from_raw(p) going out of scope: the segment is deallocated; frees
\* counts how often that happened to this address
Freed(seg) == [seg EXCEPT !.live = FALSE, !.frees = @ + 1]

\* the addresses visited by following next_block from curr until last
\* (raw_spsc.rs 105-110); a null link ends the walk
RECURSIVE SegChain(_, _, _)
SegChain(curr, last, fuel) ==
    IF curr = last \/ curr = NULL \/ fuel = 0 THEN <<curr>>
    ELSE <<curr>> \o SegChain(segments[curr].next_block, last, fuel - 1)

\* the segments from self.head to self.tail
QueueChain == SegChain(q_head, q_tail, Len(segments))

\* the values held by the segments of ch, that are written, published and
\* not yet read, oldest first
RECURSIVE HeldIn(_)
HeldIn(ch) ==
    IF ch = <<>> THEN <<>>
    ELSE (IF Head(ch) = NULL THEN <<>> ELSE SegmentDrop(segments[Head(ch)]))
             \o HeldIn(Tail(ch))

\* the number of segments deallocated so far
FreedCount == Cardinality({p \in 1..Len(segments) : ~segments[p].live})

\* what a pop saw when Segment::pop found the head segment empty (not part of
\* the program: recorded to state what the call could have observed)
NoSeen == [set |-> FALSE, held |-> 0, quiet |-> FALSE, pushed |-> 0]

\* a dereference of a segment that was already freed
Dangling(p) == ~segments[p].live

\* the values the test producers send: 0, 1, 2, ... (COUNT of them)
COUNT == SEGMENT_SIZE + Extra

\* RawSpsc::new (48-55), UnboundSpscChannel::split
InitRaw ==
    /\ segments = <<NewSegment>>
    /\ q_head = 1
    /\ q_tail = 1
    /\ q_tail_mo = <<Stored(0, 1)>>
    /\ u_prod = [pc |-> "idle", value |-> Uninit, tail |-> NULL, seg |-> NULL,
                 curr_head |-> 0, next_head |-> 0, new_block |-> NULL,
                 stores |-> 0, acq |-> 0,
                 start_full |-> FALSE]
    /\ u_cons = [pc |-> "idle", head |-> NULL, seg |-> NULL, curr_tail |-> 0,
                 value |-> Uninit, q_tail |-> NULL, next |-> NULL, ret |-> NoRes,
                 stores |-> 0, acq |-> 0,
                 freed0 |-> 0, seen |-> NoSeen]
    /\ u_c_res = NoRes
    /\ u_pushed = <<>> /\ u_popped = <<>> /\ dropped = <<>>
    /\ uaf = FALSE
    /\ phase = "pushing"

\* ---------------------------------------------------- RawSpsc::push
\* mutant of RawPushLoadTail: the producer keeps the tail pointer of its
\* previous call instead of loading self.tail
RawPushLoadTail_Stale(v) ==
    /\ u_prod.pc = "idle"
    /\ LET t == IF u_prod.tail = NULL THEN q_tail ELSE u_prod.tail
       IN u_prod' = [u_prod EXCEPT !.pc = "seg_load_head", !.value = v,
                                   !.tail = t, !.seg = t,
                                   !.new_block = NULL,
                                   !.start_full = Len(HeldIn(QueueChain)) >= SEGMENT_SIZE - 1]
    /\ phase' = IF phase = "popping" THEN "mixed" ELSE phase
    /\ UNCHANGED <<q_head, q_tail, q_tail_mo, segments, u_cons, u_c_res, u_pushed,
                   u_popped, dropped, uaf>>
    /\ UNCHANGED mvars
    /\ UNCHANGED bvars
    /\ UNCHANGED ovars

\* push, line 61: the call and the acquire load of self.tail
RawPushLoadTail(v) ==
    /\ u_prod.pc = "idle"
    /\ u_prod' = [u_prod EXCEPT !.pc = "seg_load_head", !.value = v,
                                !.tail = q_tail, !.seg = q_tail,
                                !.new_block = NULL,
                                !.start_full = Len(HeldIn(QueueChain)) >= SEGMENT_SIZE - 1]
    /\ phase' = IF phase = "popping" THEN "mixed" ELSE phase
    /\ UNCHANGED <<q_head, q_tail, q_tail_mo, segments, u_cons, u_c_res, u_pushed,
                   u_popped, dropped, uaf>>
    /\ UNCHANGED mvars
    /\ UNCHANGED bvars
    /\ UNCHANGED ovars

\* Segment::push, lines 162-163: the relaxed load of next_head, the mask
SegPushLoadHead ==
    /\ u_prod.pc = "seg_load_head"
    /\ u_prod' = [u_prod EXCEPT !.pc = "seg_check",
                     !.curr_head = segments[u_prod.seg].next_head,
                     !.next_head = SegAdvance(segments[u_prod.seg].next_head)]
    /\ uaf' = (uaf \/ Dangling(u_prod.seg))
    /\ UNCHANGED <<q_head, q_tail, q_tail_mo, segments, u_cons, u_c_res, u_pushed,
                   u_popped, dropped, phase>>
    /\ UNCHANGED mvars
    /\ UNCHANGED bvars
    /\ UNCHANGED ovars

\* mutant of SegPushFull: the full test compares curr_head, not the advanced
\* index, with tail
SegPushFull_Early ==
    /\ u_prod.pc = "seg_check"
    /\ \E i \in ReadableU(segments[u_prod.seg].mo_tail, u_prod.acq) :
          LET e == segments[u_prod.seg].mo_tail[i]
          IN /\ u_prod.curr_head = e.val
             /\ u_prod' = [u_prod EXCEPT
                   !.pc = IF u_prod.new_block = NULL
                          THEN "link" ELSE "store_tail",
                   !.acq = Acquired(u_prod.acq, e)]
    /\ uaf' = (uaf \/ Dangling(u_prod.seg))
    /\ UNCHANGED <<q_head, q_tail, q_tail_mo, segments, u_cons, u_c_res, u_pushed,
                   u_popped, dropped, phase>>
    /\ UNCHANGED mvars
    /\ UNCHANGED bvars
    /\ UNCHANGED ovars

\* Segment::push, lines 165-167: the acquire load of tail; the segment is
\* full: Err(value).  From RawSpsc::push the value goes to link_and_push
\* (line 66); from link_and_push the result is discarded (line 215)
SegPushFull ==
    /\ u_prod.pc = "seg_check"
    /\ \E i \in ReadableU(segments[u_prod.seg].mo_tail, u_prod.acq) :
          LET e == segments[u_prod.seg].mo_tail[i]
          IN /\ u_prod.next_head = e.val
             /\ u_prod' = [u_prod EXCEPT
                   !.pc = IF u_prod.new_block = NULL
                          THEN "link" ELSE "store_tail",
                   !.acq = Acquired(u_prod.acq, e)]
    /\ uaf' = (uaf \/ Dangling(u_prod.seg))
    /\ UNCHANGED <<q_head, q_tail, q_tail_mo, segments, u_cons, u_c_res, u_pushed,
                   u_popped, dropped, phase>>
    /\ UNCHANGED mvars
    /\ UNCHANGED bvars
    /\ UNCHANGED ovars

\* Segment::push, line 165: the acquire load of tail; the segment has room
SegPushNotFull ==
    /\ u_prod.pc = "seg_check"
    /\ \E i \in ReadableU(segments[u_prod.seg].mo_tail, u_prod.acq) :
          LET e == segments[u_prod.seg].mo_tail[i]
          IN /\ u_prod.next_head # e.val
             /\ u_prod' = [u_prod EXCEPT
                   !.pc = "seg_write",
                   !.acq = Acquired(u_prod.acq, e)]
    /\ uaf' = (uaf \/ Dangling(u_prod.seg))
    /\ UNCHANGED <<q_head, q_tail, q_tail_mo, segments, u_cons, u_c_res, u_pushed,
                   u_popped, dropped, phase>>
    /\ UNCHANGED mvars
    /\ UNCHANGED bvars
    /\ UNCHANGED ovars

\* Segment::push, lines 168-171: the write of the slot
SegPushWrite ==
    /\ u_prod.pc = "seg_write"
    /\ segments' = [segments EXCEPT
                       ![u_prod.seg].ptr[u_prod.curr_head] = u_prod.value]
    /\ u_prod' = [u_prod EXCEPT !.pc = "seg_store"]
    /\ uaf' = (uaf \/ Dangling(u_prod.seg))
    /\ UNCHANGED <<q_head, q_tail, q_tail_mo, u_cons, u_c_res, u_pushed, u_popped,
                   dropped, phase>>
    /\ UNCHANGED mvars
    /\ UNCHANGED bvars
    /\ UNCHANGED ovars

\* Segment::push, lines 172-173: the release store of next_head, Ok(()).
\* Called from RawSpsc::push (line 64) the push returns
SegPushStore ==
    /\ u_prod.pc = "seg_store"
    /\ u_prod.new_block = NULL
    /\ segments' = [segments EXCEPT
                       ![u_prod.seg].next_head = u_prod.next_head,
                       ![u_prod.seg].mo_head =
                           Append(@, Stored(u_prod.stores + 1, u_prod.next_head))]
    /\ u_prod' = [u_prod EXCEPT !.pc = "idle", !.start_full = FALSE,
                                !.stores = @ + 1]
    /\ u_pushed' = Append(u_pushed, u_prod.value)
    /\ uaf' = (uaf \/ Dangling(u_prod.seg))
    /\ UNCHANGED <<q_head, q_tail, q_tail_mo, u_cons, u_c_res, u_popped, dropped, phase>>
    /\ UNCHANGED mvars
    /\ UNCHANGED bvars
    /\ UNCHANGED ovars

\* Segment::push, lines 172-173, called from link_and_push (line 215)
SegPushStoreLinked ==
    /\ u_prod.pc = "seg_store"
    /\ u_prod.new_block # NULL
    /\ segments' = [segments EXCEPT
                       ![u_prod.seg].next_head = u_prod.next_head,
                       ![u_prod.seg].mo_head =
                           Append(@, Stored(u_prod.stores + 1, u_prod.next_head))]
    /\ u_prod' = [u_prod EXCEPT !.pc = "store_tail", !.stores = @ + 1]
    /\ uaf' = (uaf \/ Dangling(u_prod.seg))
    /\ UNCHANGED <<q_head, q_tail, q_tail_mo, u_cons, u_c_res, u_pushed, u_popped,
                   dropped, phase>>
    /\ UNCHANGED mvars
    /\ UNCHANGED bvars
    /\ UNCHANGED ovars

\* mutant of LinkNewBlock: the value is not pushed into the new segment
LinkNewBlock_NoPush ==
    /\ u_prod.pc = "link"
    /\ segments' = [Append(segments, NewSegment) EXCEPT
                       ![u_prod.tail].next_block = Len(segments) + 1,
                       ![u_prod.tail].mo_next =
                           Append(@, Stored(u_prod.stores + 1, Len(segments) + 1))]
    /\ u_prod' = [u_prod EXCEPT !.pc = "store_tail",
                                !.stores = @ + 1,
                                !.new_block = Len(segments) + 1,
                                !.seg = Len(segments) + 1]
    /\ uaf' = (uaf \/ Dangling(u_prod.tail))
    /\ UNCHANGED <<q_head, q_tail, q_tail_mo, u_cons, u_c_res, u_pushed, u_popped,
                   dropped, phase>>
    /\ UNCHANGED mvars
    /\ UNCHANGED bvars
    /\ UNCHANGED ovars

\* mutant of LinkNewBlock: the new segment is linked behind the head segment,
\* not behind the segment push examined
LinkNewBlock_LinksHead ==
    /\ u_prod.pc = "link"
    /\ segments' = [Append(segments, NewSegment) EXCEPT
                       ![q_head].next_block = Len(segments) + 1,
                       ![q_head].mo_next =
                           Append(@, Stored(u_prod.stores + 1, Len(segments) + 1))]
    /\ u_prod' = [u_prod EXCEPT !.pc = "seg_load_head",
                                !.stores = @ + 1,
                                !.new_block = Len(segments) + 1,
                                !.seg = Len(segments) + 1]
    /\ uaf' = (uaf \/ Dangling(u_prod.tail))
    /\ UNCHANGED <<q_head, q_tail, q_tail_mo, u_cons, u_c_res, u_pushed, u_popped,
                   dropped, phase>>
    /\ UNCHANGED mvars
    /\ UNCHANGED bvars
    /\ UNCHANGED ovars

\* link_and_push -> link_new_block (198-203, 212): allocate a segment and
\* release-store its address into the full segment's next_block
LinkNewBlock ==
    /\ u_prod.pc = "link"
    /\ segments' = [Append(segments, NewSegment) EXCEPT
                       ![u_prod.tail].next_block = Len(segments) + 1,
                       ![u_prod.tail].mo_next =
                           Append(@, Stored(u_prod.stores + 1, Len(segments) + 1))]
    /\ u_prod' = [u_prod EXCEPT !.pc = "seg_load_head",
                                !.stores = @ + 1,
                                !.new_block = Len(segments) + 1,
                                !.seg = Len(segments) + 1]
    /\ uaf' = (uaf \/ Dangling(u_prod.tail))
    /\ UNCHANGED <<q_head, q_tail, q_tail_mo, u_cons, u_c_res, u_pushed, u_popped,
                   dropped, phase>>
    /\ UNCHANGED mvars
    /\ UNCHANGED bvars
    /\ UNCHANGED ovars

\* mutant of RawPushStoreTail: self.tail is not moved to the new segment
RawPushStoreTail_Forgets ==
    /\ u_prod.pc = "store_tail"
    /\ u_prod' = [u_prod EXCEPT !.pc = "idle", !.start_full = FALSE]
    /\ u_pushed' = Append(u_pushed, u_prod.value)
    /\ UNCHANGED <<q_head, q_tail, q_tail_mo, segments, u_cons, u_c_res, u_popped,
                   dropped, uaf, phase>>
    /\ UNCHANGED mvars
    /\ UNCHANGED bvars
    /\ UNCHANGED ovars

\* push, line 67: the release store of self.tail; the push returns
RawPushStoreTail ==
    /\ u_prod.pc = "store_tail"
    /\ q_tail' = u_prod.new_block
    /\ q_tail_mo' = Append(q_tail_mo, Stored(u_prod.stores + 1, u_prod.new_block))
    /\ u_prod' = [u_prod EXCEPT !.pc = "idle", !.start_full = FALSE,
                                !.stores = @ + 1]
    /\ u_pushed' = Append(u_pushed, u_prod.value)
    /\ UNCHANGED <<q_head, segments, u_cons, u_c_res, u_popped, dropped, uaf,
                   phase>>
    /\ UNCHANGED mvars
    /\ UNCHANGED bvars
    /\ UNCHANGED ovars

\* ----------------------------------------------------- RawSpsc::pop
\* pop, line 77: the call and the acquire load of self.head
RawPopLoadHead ==
    /\ u_cons.pc = "idle"
    /\ u_cons' = [u_cons EXCEPT !.pc = "seg_load_tail", !.head = q_head,
                                !.seg = q_head, !.next = NULL,
                                !.freed0 = FreedCount]
    /\ phase' = IF phase = "pushing" THEN "popping" ELSE phase
    /\ UNCHANGED <<q_head, q_tail, q_tail_mo, segments, u_prod, u_c_res, u_pushed,
                   u_popped, dropped, uaf>>
    /\ UNCHANGED mvars
    /\ UNCHANGED bvars
    /\ UNCHANGED ovars

\* Segment::pop, line 183: the relaxed load of tail
SegPopLoadTail ==
    /\ u_cons.pc = "seg_load_tail"
    /\ u_cons' = [u_cons EXCEPT !.pc = "seg_check",
                                !.curr_tail = segments[u_cons.seg].tail]
    /\ uaf' = (uaf \/ Dangling(u_cons.seg))
    /\ UNCHANGED <<q_head, q_tail, q_tail_mo, segments, u_prod, u_c_res, u_pushed,
                   u_popped, dropped, phase>>
    /\ UNCHANGED mvars
    /\ UNCHANGED bvars
    /\ UNCHANGED ovars

\* Segment::pop, lines 184-186: the acquire load of next_head; empty: None.
\* On the head segment RawSpsc::pop goes on at line 84; on the next segment
\* (line 93) None is the result of RawSpsc::pop
SegPopEmpty ==
    /\ u_cons.pc = "seg_check"
    /\ \E i \in ReadableU(segments[u_cons.seg].mo_head, u_cons.acq) :
          LET e == segments[u_cons.seg].mo_head[i]
          IN /\ e.val = u_cons.curr_tail
             /\ u_cons' = IF u_cons.next = NULL
                   THEN [u_cons EXCEPT !.pc = "load_tail",
                            !.acq = Acquired(u_cons.acq, e),
                            !.seen = [set |-> TRUE,
                                      held |-> Len(HeldIn(QueueChain)),
                                      quiet |-> u_prod.pc = "idle",
                                      pushed |-> Len(u_pushed)]]
                   ELSE [u_cons EXCEPT !.pc = "drop", !.ret = None,
                            !.acq = Acquired(u_cons.acq, e)]
    /\ uaf' = (uaf \/ Dangling(u_cons.seg))
    /\ UNCHANGED <<q_head, q_tail, q_tail_mo, segments, u_prod, u_c_res, u_pushed,
                   u_popped, dropped, phase>>
    /\ UNCHANGED mvars
    /\ UNCHANGED bvars
    /\ UNCHANGED ovars

\* Segment::pop, line 184: the acquire load of next_head; not empty
SegPopNotEmpty ==
    /\ u_cons.pc = "seg_check"
    /\ \E i \in ReadableU(segments[u_cons.seg].mo_head, u_cons.acq) :
          LET e == segments[u_cons.seg].mo_head[i]
          IN /\ e.val # u_cons.curr_tail
             /\ u_cons' = [u_cons EXCEPT !.pc = "seg_read",
                                            !.acq = Acquired(u_cons.acq, e)]
    /\ uaf' = (uaf \/ Dangling(u_cons.seg))
    /\ UNCHANGED <<q_head, q_tail, q_tail_mo, segments, u_prod, u_c_res, u_pushed,
                   u_popped, dropped, phase>>
    /\ UNCHANGED mvars
    /\ UNCHANGED bvars
    /\ UNCHANGED ovars

\* Segment::pop, line 188: assume_init_read of the slot
SegPopRead ==
    /\ u_cons.pc = "seg_read"
    /\ \E v \in Get(segments[u_cons.seg].ptr, u_cons.curr_tail) :
           u_cons' = [u_cons EXCEPT !.pc = "seg_store", !.value = v]
    /\ uaf' = (uaf \/ Dangling(u_cons.seg))
    /\ UNCHANGED <<q_head, q_tail, q_tail_mo, segments, u_prod, u_c_res, u_pushed,
                   u_popped, dropped, phase>>
    /\ UNCHANGED mvars
    /\ UNCHANGED bvars
    /\ UNCHANGED ovars

\* Segment::pop, lines 189-192 on the head segment: the release store of
\* tail, Some(value); RawSpsc::pop returns it (line 82)
SegPopStore ==
    /\ u_cons.pc = "seg_store"
    /\ u_cons.next = NULL
    /\ segments' = [segments EXCEPT
                       ![u_cons.seg].tail = SegAdvance(u_cons.curr_tail),
                       ![u_cons.seg].mo_tail =
                           Append(@, Stored(u_cons.stores + 1,
                                            SegAdvance(u_cons.curr_tail)))]
    /\ u_cons' = [u_cons EXCEPT !.pc = "idle", !.stores = @ + 1]
    /\ u_c_res' = Some(u_cons.value)
    /\ u_popped' = Append(u_popped, u_cons.value)
    /\ uaf' = (uaf \/ Dangling(u_cons.seg))
    /\ UNCHANGED <<q_head, q_tail, q_tail_mo, u_prod, u_pushed, dropped, phase>>
    /\ UNCHANGED mvars
    /\ UNCHANGED bvars
    /\ UNCHANGED ovars

\* Segment::pop, lines 189-192 on the next segment (line 93)
SegPopStoreNext ==
    /\ u_cons.pc = "seg_store"
    /\ u_cons.next # NULL
    /\ segments' = [segments EXCEPT
                       ![u_cons.seg].tail = SegAdvance(u_cons.curr_tail),
                       ![u_cons.seg].mo_tail =
                           Append(@, Stored(u_cons.stores + 1,
                                            SegAdvance(u_cons.curr_tail)))]
    /\ u_cons' = [u_cons EXCEPT !.pc = "drop", !.ret = Some(u_cons.value),
                                !.stores = @ + 1]
    /\ uaf' = (uaf \/ Dangling(u_cons.seg))
    /\ UNCHANGED <<q_head, q_tail, q_tail_mo, u_prod, u_c_res, u_pushed, u_popped,
                   dropped, phase>>
    /\ UNCHANGED mvars
    /\ UNCHANGED bvars
    /\ UNCHANGED ovars

\* pop, lines 84-87: the acquire load of self.tail; head == curr_tail: None
RawPopEmpty ==
    /\ u_cons.pc = "load_tail"
    /\ \E i \in ReadableU(q_tail_mo, u_cons.acq) :
          LET e == q_tail_mo[i]
          IN /\ u_cons.head = e.val
             /\ u_cons' = [u_cons EXCEPT !.pc = "idle", !.q_tail = e.val,
                                            !.acq = Acquired(u_cons.acq, e),
                                            !.seen = NoSeen]
    /\ u_c_res' = None
    /\ UNCHANGED <<q_head, q_tail, q_tail_mo, segments, u_prod, u_pushed, u_popped,
                   dropped, uaf, phase>>
    /\ UNCHANGED mvars
    /\ UNCHANGED bvars
    /\ UNCHANGED ovars

\* pop, lines 84-85: the acquire load of self.tail; head != curr_tail
RawPopAdvance ==
    /\ u_cons.pc = "load_tail"
    /\ \E i \in ReadableU(q_tail_mo, u_cons.acq) :
          LET e == q_tail_mo[i]
          IN /\ u_cons.head # e.val
             /\ u_cons' = [u_cons EXCEPT !.pc = "load_next", !.q_tail = e.val,
                                            !.acq = Acquired(u_cons.acq, e),
                                            !.seen = NoSeen]
    /\ UNCHANGED <<q_head, q_tail, q_tail_mo, segments, u_prod, u_c_res, u_pushed,
                   u_popped, dropped, uaf, phase>>
    /\ UNCHANGED mvars
    /\ UNCHANGED bvars
    /\ UNCHANGED ovars

\* pop, lines 89-90: Box::from_raw(head), the acquire load of next_block.
\* A null next_block is stored into self.head and dereferenced (91-93): the
\* thread faults
RawPopLoadNext ==
    /\ u_cons.pc = "load_next"
    /\ \E i \in ReadableU(segments[u_cons.head].mo_next, u_cons.acq) :
          LET e == segments[u_cons.head].mo_next[i]
          IN /\ u_cons' = [u_cons EXCEPT
                              !.pc = IF e.val = NULL THEN "fault" ELSE "store_head",
                              !.next = e.val,
                              !.acq = Acquired(u_cons.acq, e)]
             /\ uaf' = (uaf \/ Dangling(u_cons.head) \/ e.val = NULL)
    /\ UNCHANGED <<q_head, q_tail, q_tail_mo, segments, u_prod, u_c_res, u_pushed,
                   u_popped, dropped, phase>>
    /\ UNCHANGED mvars
    /\ UNCHANGED bvars
    /\ UNCHANGED ovars

\* pop, lines 91-93: the release store of self.head, then pop on the next
\* segment
RawPopStoreHead ==
    /\ u_cons.pc = "store_head"
    /\ q_head' = u_cons.next
    /\ u_cons' = [u_cons EXCEPT !.pc = "seg_load_tail", !.seg = u_cons.next,
                                !.stores = @ + 1]
    /\ UNCHANGED <<q_tail, q_tail_mo, segments, u_prod, u_c_res, u_pushed, u_popped,
                   dropped, uaf, phase>>
    /\ UNCHANGED mvars
    /\ UNCHANGED bvars
    /\ UNCHANGED ovars

\* mutant of RawPopDropSegment: the new head segment is freed, not the old
RawPopDropSegment_FreesNext ==
    /\ u_cons.pc = "drop"
    /\ \E i \in ReadableU(segments[u_cons.seg].mo_head, u_cons.acq) :
          dropped' = dropped \o SegmentDrop([segments[u_cons.seg] EXCEPT
                                    !.next_head = segments[u_cons.seg].mo_head[i].val])
    /\ segments' = [segments EXCEPT ![u_cons.seg] = Freed(@)]
    /\ u_cons' = [u_cons EXCEPT !.pc = "idle"]
    /\ u_c_res' = u_cons.ret
    /\ u_popped' = IF u_cons.ret.ok THEN Append(u_popped, u_cons.ret.val)
                   ELSE u_popped
    /\ uaf' = (uaf \/ Dangling(u_cons.seg))
    /\ UNCHANGED <<q_head, q_tail, q_tail_mo, u_prod, u_pushed, phase>>
    /\ UNCHANGED mvars
    /\ UNCHANGED bvars
    /\ UNCHANGED ovars

\* pop, line 94: curr_segment (the Box of the old head) goes out of scope:
\* Segment::drop; RawSpsc::pop returns what the next segment's pop returned
RawPopDropSegment ==
    /\ u_cons.pc = "drop"
    /\ \E i \in ReadableU(segments[u_cons.head].mo_head, u_cons.acq) :
          dropped' = dropped \o SegmentDrop([segments[u_cons.head] EXCEPT
                                    !.next_head = segments[u_cons.head].mo_head[i].val])
    /\ segments' = [segments EXCEPT ![u_cons.head] = Freed(@)]
    /\ u_cons' = [u_cons EXCEPT !.pc = "idle"]
    /\ u_c_res' = u_cons.ret
    /\ u_popped' = IF u_cons.ret.ok THEN Append(u_popped, u_cons.ret.val)
                   ELSE u_popped
    /\ uaf' = (uaf \/ Dangling(u_cons.head))
    /\ UNCHANGED <<q_head, q_tail, q_tail_mo, u_prod, u_pushed, phase>>
    /\ UNCHANGED mvars
    /\ UNCHANGED bvars
    /\ UNCHANGED ovars

\* the segments walk of RawSpsc::drop frees: every address on ch
FreeAll(ch) ==
    [p \in 1..Len(segments) |->
        IF \E k \in 1..Len(ch) : ch[k] = p THEN Freed(segments[p])
        ELSE segments[p]]

\* mutant of RawDrop: the walk stops before the tail segment
RawDrop_LeaksTail ==
    /\ u_prod.pc = "idle" /\ u_cons.pc = "idle"
    /\ segments' = FreeAll(SubSeq(QueueChain, 1, Len(QueueChain) - 1))
    /\ dropped' = dropped \o HeldIn(SubSeq(QueueChain, 1, Len(QueueChain) - 1))
    /\ uaf' = (uaf \/ \E k \in 1..Len(QueueChain) :
                          QueueChain[k] = NULL \/ Dangling(QueueChain[k]))
    /\ u_prod' = [u_prod EXCEPT !.pc = "dropped"]
    /\ u_cons' = [u_cons EXCEPT !.pc = "dropped"]
    /\ UNCHANGED <<q_head, q_tail, q_tail_mo, u_c_res, u_pushed, u_popped, phase>>
    /\ UNCHANGED mvars
    /\ UNCHANGED bvars
    /\ UNCHANGED ovars

\* impl Drop for RawSpsc (99-114): every segment from head to tail is boxed
\* again and dropped (Segment::drop destructs its unread values).  drop takes
\* &mut self: no call is in progress and none follows.  A null or freed
\* address on the walk is a dereference of an invalid pointer
RawDrop ==
    /\ u_prod.pc = "idle" /\ u_cons.pc = "idle"
    /\ segments' = FreeAll(QueueChain)
    /\ dropped' = dropped \o HeldIn(QueueChain)
    /\ uaf' = (uaf \/ \E k \in 1..Len(QueueChain) :
                          QueueChain[k] = NULL \/ Dangling(QueueChain[k]))
    /\ u_prod' = [u_prod EXCEPT !.pc = "dropped"]
    /\ u_cons' = [u_cons EXCEPT !.pc = "dropped"]
    /\ UNCHANGED <<q_head, q_tail, q_tail_mo, u_c_res, u_pushed, u_popped, phase>>
    /\ UNCHANGED mvars
    /\ UNCHANGED bvars
    /\ UNCHANGED ovars

\* ------------------------------------------- the callers of the handles
\* `if !sender.is_full() { ... sender.send(v) ... }`: the producer thread
\* takes the bool is_full handed back; an answer of false is kept together
\* with the number of sends accepted so far (the answer is about the send
\* that follows)
SenderNotes ==
    /\ ppc = "idle" /\ obs["sender"].pc = "idle"
    /\ o_res.handle = "sender" /\ o_res.call = "is_full"
    /\ noted' = [noted EXCEPT !["sender"] =
                    IF o_res.res THEN NoNote
                    ELSE [set |-> TRUE, at |-> Len(pushed)]]
    /\ o_res' = Answer("none", "none", FALSE)
    /\ UNCHANGED <<obs, destructed>>
    /\ UNCHANGED mvars
    /\ UNCHANGED bvars
    /\ UNCHANGED uvars

\* `if !receiver.is_empty() { ... receiver.recv() ... }`: the consumer thread
\* takes the bool is_empty handed back; an answer of false is kept together
\* with the number of values received so far
ReceiverNotes ==
    /\ cpc = "idle" /\ obs["receiver"].pc = "idle"
    /\ o_res.handle = "receiver" /\ o_res.call = "is_empty"
    /\ noted' = [noted EXCEPT !["receiver"] =
                    IF o_res.res THEN NoNote
                    ELSE [set |-> TRUE, at |-> Len(popped)]]
    /\ o_res' = Answer("none", "none", FALSE)
    /\ UNCHANGED <<obs, destructed>>
    /\ UNCHANGED mvars
    /\ UNCHANGED bvars
    /\ UNCHANGED uvars

\* ------------------------------------- one producer and one consumer thread
\* Sender::send / Receiver::recv called freely from two threads
InitB == InitQueue(1..MaxCap) /\ InitRaw /\ threads = 2

SendB ==
    /\ Len(pushed) < MaxPushB
    /\ \E v \in Values : PushLoadHead(v)

NextB ==
    \/ SendB
    \/ PushFull(FALSE)
    \/ PushNotFull
    \/ PushInsert
    \/ PushStore(FALSE)
    \/ PopLoadTail
    \/ PopEmpty(FALSE)
    \/ PopNotEmpty
    \/ PopGet
    \/ PopStore(FALSE)

SpecB == InitB /\ [][NextB]_vars

\* ------------------ two threads, then both handles go out of scope
\* the queue lives in an Arc shared by Sender and Receiver (channel.rs 46-55):
\* when both are dropped BoundedSpsc::drop runs
NextBLife == NextB \/ DropQueue

SpecBLife == InitB /\ [][NextBLife]_vars

\* ------------------------------------------ the single-threaded harness
\* mod.rs basic_push_pop / full_and_empty: one thread calls send and recv,
\* each call returns before the next one starts; every call is logged
InitBSeq == InitQueue(1..MaxCap) /\ InitRaw /\ threads = 1

SendSeq ==
    /\ cpc = "idle" /\ Quiet
    /\ Len(hist) < MaxOps
    /\ \E v \in Values : PushLoadHead(v)

RecvSeq ==
    /\ ppc = "idle" /\ Quiet
    /\ Len(hist) < MaxOps
    /\ PopLoadTail

\* ------------------- two threads that ask before they send / receive
\* the producer thread holds the Sender: a thread is inside one call at a
\* time, and takes an answer handed back to it before its next call
SenderFree == ppc = "idle" /\ obs["sender"].pc = "idle" /\ o_res.handle # "sender"
ReceiverFree == cpc = "idle" /\ obs["receiver"].pc = "idle" /\ o_res.handle # "receiver"

SendObs == SenderFree /\ SendB
RecvObs == ReceiverFree /\ PopLoadTail
\* Sender::is_full (channel.rs 77-79)
SenderAsks == SenderFree /\ IsFullLoadHead("sender")
\* Receiver::is_empty (channel.rs 125-127)
ReceiverAsks == ReceiverFree /\ IsEmptyLoadHead("receiver")

NextBObs ==
    \/ SenderAsks
    \/ IsFullLoadTail("sender")
    \/ SenderNotes
    \/ SendObs
    \/ PushFull(FALSE)
    \/ PushNotFull
    \/ PushInsert
    \/ PushStore(FALSE)
    \/ ReceiverAsks
    \/ IsEmptyLoadTail("receiver")
    \/ ReceiverNotes
    \/ RecvObs
    \/ PopEmpty(FALSE)
    \/ PopNotEmpty
    \/ PopGet
    \/ PopStore(FALSE)

SpecBObs == InitB /\ [][NextBObs]_vars

\* Sender::is_empty / Receiver::is_empty (channel.rs 89-91, 125-127)
IsEmptySeq ==
    /\ ppc = "idle" /\ cpc = "idle" /\ Quiet
    /\ \E h \in Handles : IsEmptyLoadHead(h)

\* Sender::is_full / Receiver::is_full (channel.rs 77-79, 113-115)
IsFullSeq ==
    /\ ppc = "idle" /\ cpc = "idle" /\ Quiet
    /\ \E h \in Handles : IsFullLoadHead(h)

IsEmptyReturn == \E h \in Handles : IsEmptyLoadTail(h)

IsFullReturn == \E h \in Handles : IsFullLoadTail(h)

NextBSeq ==
    \/ IsEmptySeq
    \/ IsEmptyReturn
    \/ IsFullSeq
    \/ IsFullReturn
    \/ SendSeq
    \/ PushFull(TRUE)
    \/ PushNotFull
    \/ PushInsert
    \/ PushStore(TRUE)
    \/ RecvSeq
    \/ PopEmpty(TRUE)
    \/ PopNotEmpty
    \/ PopGet
    \/ PopStore(TRUE)

SpecBSeq == InitBSeq /\ [][NextBSeq]_vars

\* ------------------------------------------------- the retry harness
\* mod.rs multithreaded_push_pop (30-50):
\*   producer: for i in 0..N { while sender.send(i).is_err() {} }
\*   consumer: for _ in 0..N { loop { if let Some(v) = recv() { break } } }
InitRetry == InitQueue(2..MaxCap) /\ InitRaw /\ threads = 2

\* the producer's loop variable i: the number of sends accepted so far
SendRetry ==
    /\ Len(pushed) < RetryCount
    /\ PushLoadHead(Len(pushed))

RecvRetry ==
    /\ Len(popped) < RetryCount
    /\ PopLoadTail

ProducerRetry ==
    \/ SendRetry
    \/ PushFull(FALSE)
    \/ PushNotFull
    \/ PushInsert
    \/ PushStore(FALSE)

ConsumerRetry ==
    \/ RecvRetry
    \/ PopEmpty(FALSE)
    \/ PopNotEmpty
    \/ PopGet
    \/ PopStore(FALSE)

NextRetry == ProducerRetry \/ ConsumerRetry

\* both threads are OS threads that keep being scheduled, and a Release store
\* becomes visible to the other thread's Acquire loads in finite time: a
\* loop that keeps loading an index does not read a superseded value for ever
SpecBRetry ==
    /\ InitRetry
    /\ [][NextRetry]_vars
    /\ WF_vars(ProducerRetry)
    /\ WF_vars(ConsumerRetry)
    /\ SF_vars(PushNotFull)
    /\ SF_vars(PopNotEmpty)

\* --------------------------- the unbounded queue shared by two threads
\* channel.rs spsc_threaded_test / raw_spsc.rs spsc_contention_test: the
\* producer sends 0, 1, ..., COUNT - 1; the consumer calls recv again and again
InitU == InitQueue({2}) /\ InitRaw /\ threads = 2

\* Sender::send(i) (channel.rs 44-46)
SendU ==
    /\ Len(u_pushed) < COUNT
    /\ RawPushLoadTail(Len(u_pushed))

ProducerU ==
    \/ SendU
    \/ SegPushLoadHead
    \/ SegPushFull
    \/ SegPushNotFull
    \/ SegPushWrite
    \/ SegPushStore
    \/ SegPushStoreLinked
    \/ LinkNewBlock
    \/ RawPushStoreTail

\* Receiver::recv (channel.rs 55-57)
ConsumerU ==
    \/ RawPopLoadHead
    \/ SegPopLoadTail
    \/ SegPopEmpty
    \/ SegPopNotEmpty
    \/ SegPopRead
    \/ SegPopStore
    \/ SegPopStoreNext
    \/ RawPopEmpty
    \/ RawPopAdvance
    \/ RawPopLoadNext
    \/ RawPopStoreHead
    \/ RawPopDropSegment

NextU == ProducerU \/ ConsumerU

SpecU == InitU /\ [][NextU]_vars

\* both threads are OS threads that keep being scheduled
SpecUFair ==
    /\ SpecU
    /\ WF_vars(ProducerU)
    /\ WF_vars(ConsumerU)
    /\ SF_vars(SegPopNotEmpty)
    /\ SF_vars(RawPopAdvance)

\* ------------- two threads, then Sender and Receiver go out of scope
\* the queue lives in an Arc shared by both handles (channel.rs 70-73): when
\* both are dropped RawSpsc::drop runs
NextULife == NextU \/ RawDrop

SpecULife == InitU /\ [][NextULife]_vars

\* ----------------------------- the unbounded queue used by one thread
\* raw_spsc.rs batch_push_pop_test / basic_push_pop_test: each call returns
\* before the next one starts
SendUSeq ==
    /\ u_cons.pc = "idle"
    /\ Len(u_pushed) < COUNT
    /\ RawPushLoadTail(Len(u_pushed))

RecvUSeq ==
    /\ u_prod.pc = "idle"
    /\ RawPopLoadHead

NextUSeq ==
    \/ SendUSeq
    \/ SegPushLoadHead
    \/ SegPushFull
    \/ SegPushNotFull
    \/ SegPushWrite
    \/ SegPushStore
    \/ SegPushStoreLinked
    \/ LinkNewBlock
    \/ RawPushStoreTail
    \/ RecvUSeq
    \/ SegPopLoadTail
    \/ SegPopEmpty
    \/ SegPopNotEmpty
    \/ SegPopRead
    \/ SegPopStore
    \/ SegPopStoreNext
    \/ RawPopEmpty
    \/ RawPopAdvance
    \/ RawPopLoadNext
    \/ RawPopStoreHead
    \/ RawPopDropSegment

\* the test calls push and pop from its own thread
InitUSeq == InitQueue({2}) /\ InitRaw /\ threads = 1

SpecUSeq == InitUSeq /\ [][NextUSeq]_vars

\* ------------------------------- a program that uses one of the two queues
\* the bounded channel was created and nothing was called on it; a program
\* that goes on to use the unbounded channel is taken from one such state,
\* the one with the largest capacity
UntouchedB ==
    /\ ppc = "idle" /\ cpc = "idle"
    /\ ~p_res.set /\ ~c_res.set
    /\ capacity = MaxCap

\* the unbounded channel was created and nothing was called on it
UntouchedU ==
    /\ u_prod.pc = "idle" /\ u_cons.pc = "idle"
    /\ u_pushed = <<>> /\ ~u_c_res.set
    /\ phase = "pushing"

\* two threads share either a bounded or an unbounded channel
NextEither ==
    \/ UntouchedU /\ SendB
    \/ UntouchedU /\ PushFull(FALSE)
    \/ UntouchedU /\ PushNotFull
    \/ UntouchedU /\ PushInsert
    \/ UntouchedU /\ PushStore(FALSE)
    \/ UntouchedU /\ PopLoadTail
    \/ UntouchedU /\ PopEmpty(FALSE)
    \/ UntouchedU /\ PopNotEmpty
    \/ UntouchedU /\ PopGet
    \/ UntouchedU /\ PopStore(FALSE)
    \/ UntouchedB /\ SendU
    \/ UntouchedB /\ SegPushLoadHead
    \/ UntouchedB /\ SegPushFull
    \/ UntouchedB /\ SegPushNotFull
    \/ UntouchedB /\ SegPushWrite
    \/ UntouchedB /\ SegPushStore
    \/ UntouchedB /\ SegPushStoreLinked
    \/ UntouchedB /\ LinkNewBlock
    \/ UntouchedB /\ RawPushStoreTail
    \/ UntouchedB /\ RawPopLoadHead
    \/ UntouchedB /\ SegPopLoadTail
    \/ UntouchedB /\ SegPopEmpty
    \/ UntouchedB /\ SegPopNotEmpty
    \/ UntouchedB /\ SegPopRead
    \/ UntouchedB /\ SegPopStore
    \/ UntouchedB /\ SegPopStoreNext
    \/ UntouchedB /\ RawPopEmpty
    \/ UntouchedB /\ RawPopAdvance
    \/ UntouchedB /\ RawPopLoadNext
    \/ UntouchedB /\ RawPopStoreHead
    \/ UntouchedB /\ RawPopDropSegment

SpecEither == InitB /\ [][NextEither]_vars

\* two threads share either channel, and when both are done with it the
\* channel is dropped
NextEitherLife ==
    \/ NextEither
    \/ UntouchedU /\ DropQueue
    \/ UntouchedB /\ RawDrop

SpecEitherLife == InitB /\ [][NextEitherLife]_vars

\* =================================================================
\* Properties
\* =================================================================
IsPrefix(s, t) == Len(s) <= Len(t) /\ \A i \in 1..Len(s) : s[i] = t[i]

\* what is left of t after its first n elements
Suffix(t, n) == SubSeq(t, n + 1, Len(t))

\* the slots of the bounded buffer from `from` up to, excluding, `to`
RECURSIVE BoundedRing(_, _, _, _)
BoundedRing(buf, from, to, cap) ==
    IF from = to THEN <<>>
    ELSE <<buf[from]>> \o BoundedRing(buf, Advance(from, cap), to, cap)

\* how often v occurs in the sequence s
Count(s, v) == Cardinality({i \in 1..Len(s) : s[i] = v})

IsOkPush(e) == e.op = "push" /\ e.ok
IsSomePop(e) == e.op = "pop" /\ e.ok
OnlyPushes(a, b) == \A i \in a..b : hist[i].op = "push"

\* ------------------------------------------------------------------ C1
\* C1: unbounded queue, one producer and one consumer, every interleaving
\* of the atomic steps of push and pop: the values returned by the
\* successful pops are, in order, the values pushed (nothing lost, nothing
\* duplicated, nothing reordered), and once the producer has finished and
\* every value was received the queue is in the state in which a further
\* pop returns empty (head == tail and the head segment is empty).
C1_UnboundedFifo ==
    /\ IsPrefix(u_popped, u_pushed)
    /\ (/\ u_prod.pc = "idle" /\ Len(u_pushed) = COUNT
        /\ u_cons.pc = "idle" /\ u_popped = u_pushed)
       => (/\ q_head = q_tail
           /\ segments[q_head].next_head = segments[q_head].tail)

\* ------------------------------------------------------------------ C2
\* C2: unbounded queue: a segment that pop frees is, at the moment it is
\* freed, not the queue's tail segment and holds no pushed-but-unread
\* value (its next_head index equals its tail index).
C2_FreedSegmentDrained ==
    [][\A p \in 1..Len(segments) :
          (segments[p].live /\ ~segments'[p].live)
          => (/\ p # q_tail
              /\ segments[p].next_head = segments[p].tail)]_vars

\* ------------------------------------------------------------------ C3
\* C3: bounded queue, capacity >= 2, one producer and one consumer, every
\* interleaving of their atomic steps: the n-th successful pop returns the
\* n-th successfully pushed value, and the accepted values not yet popped
\* are exactly the ones stored between tail and next_head (none lost).
C3_BoundedFifo ==
    capacity >= 2 =>
        /\ IsPrefix(popped, pushed)
        /\ (ppc = "idle" /\ cpc = "idle")
           => BoundedRing(buffer, tail, next_head, capacity)
                  = Suffix(pushed, Len(popped))

\* the indices wrapped around and every accepted value came out again
C3_Witness ==
    /\ capacity >= 2
    /\ Len(pushed) > capacity
    /\ popped = pushed
    /\ \E i, j \in 1..Len(popped) : popped[i] # popped[j]
    /\ ppc = "idle" /\ cpc = "idle"

\* ------------------------------------------------------------------ C4
\* C4: bounded queue of capacity C >= 2, starting empty, no pops: the first
\* C-1 pushes succeed and every further push returns Full; after one pop on
\* that full queue exactly one more push succeeds before Full is returned
\* again.
C4_CapacityMinusOne ==
    capacity >= 2 =>
        /\ \A k \in 1..Len(hist) :
              OnlyPushes(1, k) => (hist[k].ok <=> k <= capacity - 1)
        /\ \A j \in 1..Len(hist) :
              (hist[j].op = "pop" /\ j >= capacity /\ OnlyPushes(1, j - 1))
              => /\ hist[j].ok
                 /\ \A k \in (j + 1)..Len(hist) :
                       OnlyPushes(j + 1, k) => (hist[k].ok <=> k = j + 1)

\* a queue of the largest capacity was filled, refused a push, gave one
\* value back, accepted one push and refused the next
C4_Witness ==
    /\ capacity = MaxCap
    /\ ppc = "idle" /\ cpc = "idle"
    /\ \E j \in 1..Len(hist) :
          /\ hist[j].op = "pop" /\ hist[j].ok
          /\ j > capacity
          /\ OnlyPushes(1, j - 1)
          /\ ~hist[j - 1].ok
          /\ Len(hist) >= j + 2
          /\ OnlyPushes(j + 1, j + 2)
          /\ hist[j + 1].ok /\ ~hist[j + 2].ok

\* ------------------------------------------------------------------ C5
\* mod.rs full_and_empty (19-28): the calls and what the test asserts
full_and_empty ==
    <<PushEvent(42, OkUnit), PushEvent(42, OkUnit), PushEvent(99, Err(99)),
      PopEvent(Some(42)), PopEvent(Some(42)), PopEvent(None)>>

SameCall(e, f) == e.op = f.op /\ e.arg = f.arg

\* C5: bounded channel of capacity 2: send(42) and send(42) succeed,
\* send(99) fails as Full and hands 99 back, then recv returns 42, 42 and
\* empty.  (Whenever the calls made so far are the first k calls of the
\* scenario, the k-th call returned what the scenario says.)
C5_FullAndEmpty ==
    capacity = 2 =>
        \A k \in 1..Len(hist) :
            (/\ k <= Len(full_and_empty)
             /\ \A i \in 1..k : SameCall(hist[i], full_and_empty[i]))
            => hist[k] = full_and_empty[k]

\* ------------------------------------------------------------------ C6
\* C6: bounded channel created with split(1): a send on the fresh channel
\* succeeds and the following recv returns the sent value.
C6_CapacityOne ==
    capacity = 1 =>
        /\ (Len(hist) >= 1 /\ hist[1].op = "push") => hist[1].ok
        /\ (Len(hist) >= 2 /\ hist[1].op = "push" /\ hist[2].op = "pop")
           => (hist[2].ok /\ hist[2].ret = hist[1].arg)

\* ------------------------------------------------------------------ C7
\* every pop returns what the accepted pushes alone determine: a value
\* exactly when more pushes were accepted than values were returned, and
\* then the value of the oldest accepted push not yet returned
PopsSeeAcceptedOnly ==
    \A j \in 1..Len(hist) :
        hist[j].op = "pop" =>
            LET before == SubSeq(hist, 1, j - 1)
                acc == SelectSeq(before, IsOkPush)
                got == Len(SelectSeq(before, IsSomePop))
            IN  /\ hist[j].ok <=> got < Len(acc)
                /\ hist[j].ok => hist[j].ret = acc[got + 1].arg

FullHandsBack ==
    \A j \in 1..Len(hist) :
        (hist[j].op = "push" /\ ~hist[j].ok) => hist[j].ret = hist[j].arg

\* the steps of a push up to and including its full test: the call (which
\* loads next_head) and the load of tail that decides; a push that returns
\* Full consists of these steps only
FullPushStep == ppc = "check" \/ ppc' = "check"

\* C7: a bounded push that reports Full returns exactly the value it was
\* given and mutates nothing: next_head, tail and every slot are unchanged
\* by its steps, and what the pops return is determined by the accepted
\* pushes alone, as if the failed push had never been called.
C7_FullPushNoMutation ==
    /\ [](FullHandsBack /\ PopsSeeAcceptedOnly)
    /\ [][FullPushStep => (/\ next_head' = next_head
                           /\ tail' = tail
                           /\ buffer' = buffer
                           /\ pushed' = pushed)]_vars

\* a refused push lies between an accepted push and the pop that returns
\* the accepted value
C7_Witness ==
    \E i, j, k \in 1..Len(hist) :
        /\ i < j /\ j < k
        /\ IsOkPush(hist[i])
        /\ hist[j].op = "push" /\ ~hist[j].ok /\ hist[j].arg # hist[i].arg
        /\ IsSomePop(hist[k]) /\ hist[k].ret = hist[i].arg

\* ------------------------------------------------------------------ C8
\* C8: unbounded queue, one thread: N pushes with no pop in between, then
\* pops: the pops return the pushed values in push order, none returns
\* empty before all N came out, and the pop after the N-th returns empty.
C8_BatchPushPop ==
    phase # "mixed" =>
        /\ IsPrefix(u_popped, u_pushed)
        /\ (u_cons.pc = "idle" /\ u_c_res = None) => u_popped = u_pushed
        /\ (u_cons.pc = "idle" /\ u_popped = u_pushed /\ phase = "popping")
           => (/\ q_head = q_tail
               /\ segments[q_head].next_head = segments[q_head].tail)

\* COUNT values (several segments' worth) went in, all came out in one
\* batch, the next pop returned empty
C8_Witness ==
    /\ phase = "popping"
    /\ Len(u_pushed) = COUNT
    /\ u_popped = u_pushed
    /\ Len(segments) >= 3
    /\ u_cons.pc = "idle" /\ u_c_res = None

\* ------------------------------------------------------------------ C9
\* C9: unbounded channel, fair scheduling, the consumer keeps calling recv:
\* every send returns (it has no failure result), and every value passed to
\* send is eventually returned by a recv.
C9_SendEventuallyReceived ==
    /\ \A n \in 1..COUNT :
          (Len(u_pushed) >= n) ~> (Len(u_popped) >= n /\ u_popped[n] = u_pushed[n])
    /\ (u_prod.pc # "idle") ~> (u_prod.pc = "idle")

\* ----------------------------------------------------------------- C10
\* the values the retry producer sends: 0, 1, ..., RetryCount - 1
RetrySent == [i \in 1..RetryCount |-> i - 1]

RetryDone ==
    /\ ppc = "idle" /\ Len(pushed) = RetryCount
    /\ cpc = "idle" /\ Len(popped) = RetryCount
    /\ \A v \in 0..(RetryCount - 1) : Count(popped, v) = Count(RetrySent, v)

\* C10: bounded channel, capacity >= 2, the producer retries send until
\* each of N values is accepted, the consumer retries recv until it has N
\* values: under fair scheduling both loops terminate and the received
\* values are, as a multiset, the values sent.
C10_RetryLoopsTerminate == <>RetryDone

C10_Witness == RetryDone /\ RetryCount > capacity

\* ----------------------------------------------------------------- C11
\* the values accepted and not yet handed out
Unread == Len(pushed) - Len(popped)

\* a step on which handle h returns from is_empty / is_full
ObsReturns(h, call) == obs[h].pc = call /\ obs'[h].pc = "idle"

\* C11: bounded queue of capacity C, no push or pop in progress: is_empty()
\* returns true exactly when no accepted value is unread, and is_full()
\* returns true exactly when C - 1 accepted values are unread.
C11_EmptyFullExact ==
    [][\A h \in Handles :
          /\ ObsReturns(h, "is_empty") =>
                (o_res' = Answer(h, "is_empty", Unread = 0))
          /\ ObsReturns(h, "is_full") =>
                (o_res' = Answer(h, "is_full", Unread = capacity - 1))
      ]_vars

\* is_full answered true on a ring whose head index has wrapped
C11_Witness ==
    /\ capacity = MaxCap
    /\ ppc = "idle" /\ cpc = "idle" /\ Quiet
    /\ o_res = Answer("sender", "is_full", TRUE)
    /\ Unread = capacity - 1
    /\ next_head < tail

\* ----------------------------------------------------------------- C12
\* the slot written by the k-th accepted push
SlotOfPush(k) == (k - 1) % capacity

\* C12: bounded queue teardown: drop destructs exactly the values that were
\* pushed and not yet popped, oldest first, each once, in the slots from tail
\* up to but excluding next_head, and no other slot.
C12_DropDestructsUnread ==
    ppc = "dropped" =>
        /\ Len(destructed) = Unread
        /\ \A k \in 1..Len(destructed) :
              /\ destructed[k].slot = SlotOfPush(Len(popped) + k)
              /\ destructed[k].val = pushed[Len(popped) + k]
        /\ \A j, k \in 1..Len(destructed) :
              destructed[j].slot = destructed[k].slot => j = k

\* a teardown that destructs two values lying across the wrap of the ring
C12_Witness ==
    /\ ppc = "dropped"
    /\ capacity = MaxCap
    /\ Len(popped) > 0
    /\ Len(destructed) = 2
    /\ destructed[1].slot > destructed[2].slot

\* ----------------------------------------------------------------- C13
\* the step on which RawSpsc::pop returns None
PopReturnsNone == u_cons.pc # "idle" /\ u_cons'.pc = "idle" /\ ~u_c_res'.ok

\* no push was in progress from the moment the pop found its segment empty
\* until it returned
NoPushSince(seen) ==
    seen.quiet /\ u_prod.pc = "idle" /\ Len(u_pushed) = seen.pushed

\* C13: a pop of the unbounded queue returns None only if the queue held no
\* pushed-and-unread value at the moment the pop examined it; with no push in
\* progress, only when every pushed value has been popped; and the pop that
\* returns None frees no segment and leaves head where it was.
C13_EmptyPopSawEmpty ==
    [][PopReturnsNone =>
          /\ u_cons.seen.set /\ u_cons.seen.held = 0
          /\ NoPushSince(u_cons.seen) => u_popped = u_pushed
          /\ FreedCount' = u_cons.freed0
          /\ q_head' = u_cons.head
      ]_vars

\* ----------------------------------------------------------------- C14
\* the slots that hold a value accepted by a completed push and not yet
\* handed out by a completed pop
Occupied == {SlotOfPush(k) : k \in (Len(popped) + 1)..Len(pushed)}

\* C14: bounded queue, capacity >= 2, any interleaving of the two threads'
\* atomic steps: the producer never writes a slot that holds a
\* pushed-but-unread value or that the consumer is reading, and the consumer
\* never reads a slot whose value was not written and published by a
\* completed push.
C14_SlotsNeverShared ==
    capacity >= 2 =>
        /\ ppc = "insert" =>
              /\ p_curr_head \notin Occupied
              /\ ~(cpc \in {"get", "store"} /\ c_curr_tail = p_curr_head)
        /\ cpc = "get" =>
              /\ Len(popped) < Len(pushed)
              /\ c_curr_tail = SlotOfPush(Len(popped) + 1)
              /\ buffer[c_curr_tail] = pushed[Len(popped) + 1]

\* the producer is about to write one slot while the consumer is about to
\* read another, after the ring has wrapped
C14_Witness ==
    /\ capacity >= 2
    /\ ppc = "insert"
    /\ cpc = "get"
    /\ p_curr_head < c_curr_tail

\* ----------------------------------------------------------------- C15
\* C15: unbounded queue: every segment ever allocated is freed exactly once
\* over the queue's life, by a pop that advances past it or by the queue's
\* drop (which walks from head to tail inclusive): no segment is freed twice
\* and none is left allocated after drop.
C15_SegmentsFreedOnce ==
    /\ \A p \in 1..Len(segments) :
          /\ segments[p].frees <= 1
          /\ segments[p].live <=> segments[p].frees = 0
    /\ u_prod.pc = "dropped" =>
          \A p \in 1..Len(segments) : segments[p].frees = 1

\* the queue was dropped after a pop had freed the first segment and while
\* head and tail named different segments
C15_Witness ==
    /\ u_prod.pc = "dropped"
    /\ Len(segments) >= 3
    /\ q_head > 1
    /\ q_tail > q_head

\* ----------------------------------------------------------------- C16
\* following next_block from self.head reaches self.tail, and every segment
\* on the way is allocated and not freed
ChainOk ==
    /\ QueueChain[Len(QueueChain)] = q_tail
    /\ \A k \in 1..Len(QueueChain) :
          QueueChain[k] # NULL /\ segments[QueueChain[k]].live

\* C16: unbounded queue: at construction exactly one segment exists and
\* head == tail; in every reachable state the next links lead from the head
\* segment to the tail segment through live segments only.
C16_HeadReachesTail ==
    /\ Len(segments) = 1 /\ q_head = q_tail
    /\ []ChainOk

\* the first segment was freed by a pop and head and tail name different
\* segments
C16_Witness ==
    /\ ~segments[1].live
    /\ Len(QueueChain) >= 2
    /\ ChainOk

\* ----------------------------------------------------------------- C17
\* C17: unbounded pop: a pop that advanced head to the next segment gets a
\* value from the single pop it performs there; a pop never returns None
\* after having advanced head.
C17_AdvancedPopReturnsValue ==
    /\ u_cons.pc = "drop" => u_cons.ret.ok
    /\ (u_cons.pc = "idle" /\ u_c_res.set /\ q_head # u_cons.head) => u_c_res.ok

\* a pop advanced head and is about to return the value it found there
C17_Witness ==
    /\ u_cons.pc = "drop"
    /\ u_cons.ret.ok
    /\ q_head = u_cons.next
    /\ q_head # u_cons.head

\* ----------------------------------------------------------------- C18
\* the step on which RawSpsc::push learns that Segment::push failed
PushFindsFull == u_prod.pc = "seg_check" /\ u_prod'.pc = "link"

\* C18: unbounded push allocates and links a segment only when the tail
\* segment held SEGMENT_SIZE - 1 unread values at the moment push examined
\* it; so a push that started with fewer than SEGMENT_SIZE - 1 unread values
\* in the queue allocates nothing, and as long as no segment was allocated
\* head == tail.
C18_AllocOnlyWhenFull ==
    /\ [](Len(segments) = 1 => q_head = q_tail)
    /\ [][/\ PushFindsFull =>
                /\ u_prod.seg = q_tail
                /\ Len(SegmentDrop(segments[q_tail])) = SEGMENT_SIZE - 1
          /\ Len(segments') # Len(segments) =>
                /\ u_prod.pc = "link"
                /\ u_prod.start_full
                /\ Len(segments') = Len(segments) + 1
         ]_vars

\* the tail segment looks full to the push that examines it: the advanced
\* head index equals a tail index its Acquire load may return, and counted
\* from the pop that stored that index the segment holds SEGMENT_SIZE - 1
\* values; when that index is the consumer's latest the segment holds
\* SEGMENT_SIZE - 1 unread values now
LooksFull ==
    LET seg == segments[q_tail]
    IN  \E i \in ReadableU(seg.mo_tail, u_prod.acq) :
            /\ seg.mo_tail[i].val = u_prod.next_head
            /\ Len(seg.mo_head) - i = SEGMENT_SIZE - 1
            /\ i = Len(seg.mo_tail) =>
                   Len(SegmentDrop(seg)) = SEGMENT_SIZE - 1

\* the values pushed into the tail segment less the pops of it that the
\* producer has observed
ObservedUnread ==
    LET seg == segments[q_tail]
    IN  Len(seg.mo_head) - Floor(seg.mo_tail, u_prod.acq)

\* C18, with the loaded index in place of the moment of the load: unbounded
\* push allocates and links a segment only when the tail segment looked full
\* to it: counted from the tail index its Acquire load returned, which a pop
\* the producer has not observed may have superseded, the segment held
\* SEGMENT_SIZE - 1 values (and it holds exactly that many unread values when
\* the index is the latest); the segment list grows only there, by one; and
\* as long as no segment was allocated head == tail.
C18_AllocOnlyWhenLooksFull ==
    /\ [](Len(segments) = 1 => q_head = q_tail)
    /\ [][/\ PushFindsFull =>
                /\ u_prod.seg = q_tail
                /\ LooksFull
                /\ Len(SegmentDrop(segments[q_tail])) <= SEGMENT_SIZE - 1
          /\ Len(segments') # Len(segments) =>
                /\ u_prod.pc = "link"
                /\ ObservedUnread = SEGMENT_SIZE - 1
                /\ Len(segments') = Len(segments) + 1
         ]_vars

\* a push found the tail segment full and is about to link a new one although
\* the consumer has already popped from that segment: the tail index the
\* push loaded was superseded
C18_Witness ==
    /\ u_prod.pc = "link"
    /\ u_prod.seg = q_tail
    /\ ObservedUnread = SEGMENT_SIZE - 1
    /\ Len(SegmentDrop(segments[q_tail])) < SEGMENT_SIZE - 1

\* ----------------------------------------------------------------- C19
\* C19: unbounded queue: a segment's next link changes at most once in the
\* segment's life, from null to a freshly allocated segment, written by the
\* producer while that segment is the queue's tail; it is never overwritten
\* or reset, and a new segment starts with a null link.
C19_NextLinkWrittenOnce ==
    [][/\ \A p \in 1..Len(segments) :
             segments'[p].next_block # segments[p].next_block =>
                /\ segments[p].next_block = NULL
                /\ segments[p].live
                /\ segments'[p].next_block = Len(segments) + 1
                /\ Len(segments') = Len(segments) + 1
                /\ p = q_tail
                /\ u_prod.pc = "link" /\ u_prod.tail = p
                /\ u_cons' = u_cons
       /\ \A p \in (Len(segments) + 1)..Len(segments') :
             segments'[p].next_block = NULL
      ]_vars

\* two segments were linked one after the other, and the first one was
\* freed with its link still in place
C19_Witness ==
    /\ Len(segments) >= 3
    /\ segments[1].next_block = 2
    /\ segments[2].next_block = 3
    /\ ~segments[1].live

\* ----------------------------------------------------------------- C20
\* the steps of a call in progress, per thread
PushStepsB == PushFull(FALSE) \/ PushNotFull \/ PushInsert \/ PushStore(FALSE)
PopStepsB == PopEmpty(FALSE) \/ PopNotEmpty \/ PopGet \/ PopStore(FALSE)
PushStepsU ==
    \/ SegPushLoadHead \/ SegPushFull \/ SegPushNotFull \/ SegPushWrite
    \/ SegPushStore \/ SegPushStoreLinked \/ LinkNewBlock \/ RawPushStoreTail
PopStepsU ==
    \/ SegPopLoadTail \/ SegPopEmpty \/ SegPopNotEmpty \/ SegPopRead
    \/ SegPopStore \/ SegPopStoreNext \/ RawPopEmpty \/ RawPopAdvance
    \/ RawPopLoadNext \/ RawPopStoreHead \/ RawPopDropSegment

\* an upper bound on the steps a call still has to take, by position
RankPB(pc) ==
    CASE pc = "idle" -> 0 [] pc = "store" -> 1 [] pc = "insert" -> 2
      [] pc = "check" -> 3
RankCB(pc) ==
    CASE pc = "idle" -> 0 [] pc = "store" -> 1 [] pc = "get" -> 2
      [] pc = "check" -> 3
RankPU(f) ==
    CASE f.pc = "idle" -> 0
      [] f.pc = "store_tail" -> 1
      [] f.pc = "seg_store" -> IF f.new_block # NULL THEN 2 ELSE 1
      [] f.pc = "seg_write" -> IF f.new_block # NULL THEN 3 ELSE 2
      [] f.pc = "seg_check" -> IF f.new_block # NULL THEN 4 ELSE 7
      [] f.pc = "seg_load_head" -> IF f.new_block # NULL THEN 5 ELSE 8
      [] f.pc = "link" -> 6
RankCU(f) ==
    CASE f.pc = "idle" -> 0
      [] f.pc = "drop" -> 1
      [] f.pc = "seg_store" -> IF f.next # NULL THEN 2 ELSE 1
      [] f.pc = "seg_read" -> IF f.next # NULL THEN 3 ELSE 2
      [] f.pc = "seg_check" -> IF f.next # NULL THEN 4 ELSE 9
      [] f.pc = "seg_load_tail" -> IF f.next # NULL THEN 5 ELSE 10
      [] f.pc = "store_head" -> 6
      [] f.pc = "load_next" -> 7
      [] f.pc = "load_tail" -> 8

\* a thread inside a call can take its next step whatever the other thread
\* is doing
NonBlocking ==
    /\ ppc # "idle" => ENABLED <<PushStepsB>>_vars
    /\ cpc # "idle" => ENABLED <<PopStepsB>>_vars
    /\ u_prod.pc # "idle" => ENABLED <<PushStepsU>>_vars
    /\ u_cons.pc # "idle" => ENABLED <<PopStepsU>>_vars

\* every step of a call brings its thread closer to the return, and the
\* return hands back a result
CallsAdvance ==
    /\ ppc' # ppc =>
          /\ RankPB(ppc') < RankPB(ppc) \/ ppc = "idle"
          /\ ppc' = "idle" => p_res'.set
    /\ cpc' # cpc =>
          /\ RankCB(cpc') < RankCB(cpc) \/ cpc = "idle"
          /\ cpc' = "idle" => c_res'.set
    /\ u_prod' # u_prod =>
          /\ RankPU(u_prod') < RankPU(u_prod) \/ u_prod.pc = "idle"
          /\ u_prod'.pc = "idle" => u_pushed' = Append(u_pushed, u_prod.value)
    /\ u_cons' # u_cons =>
          /\ RankCU(u_cons') < RankCU(u_cons) \/ u_cons.pc = "idle"
          /\ u_cons'.pc = "idle" => u_c_res'.set

\* C20: every push and pop, bounded and unbounded, completes in a bounded
\* number of its own steps whatever the other thread does and whether or not
\* it runs: no operation loops or waits for the other thread, and each
\* returns success / Full or a value / empty.
C20_WaitFree == []NonBlocking /\ [][CallsAdvance]_vars

\* a pop of the unbounded queue is about to return empty while a push is in
\* the middle of writing its value
C20_Witness ==
    /\ u_cons.pc = "load_tail"
    /\ u_cons.head = q_tail
    /\ u_prod.pc = "seg_write"
    /\ ENABLED <<PopStepsU>>_vars

\* ----------------------------------------------------------------- C21
\* a step of the bounded producer / consumer, of the unbounded producer /
\* consumer (every step of a thread moves its frame)
StepOfPushB == ppc' # ppc
StepOfPopB == cpc' # cpc
StepOfPushU == u_prod' # u_prod
StepOfPopU == u_cons' # u_cons

\* C21: index ownership: bounded push, successful or not, leaves tail
\* unchanged and bounded pop leaves next_head unchanged; unbounded push never
\* changes self.head or any segment's tail index; unbounded pop never changes
\* self.tail, any segment's next_head index or any next link.
C21_IndexOwnership ==
    [][/\ StepOfPushB => tail' = tail
       /\ StepOfPopB => next_head' = next_head
       /\ StepOfPushU =>
             /\ q_head' = q_head
             /\ \A p \in 1..Len(segments) : segments'[p].tail = segments[p].tail
       /\ StepOfPopU =>
             /\ q_tail' = q_tail
             /\ Len(segments') = Len(segments)
             /\ \A p \in 1..Len(segments) :
                   /\ segments'[p].next_head = segments[p].next_head
                   /\ segments'[p].next_block = segments[p].next_block
      ]_vars

\* a bounded push was refused and pops have moved tail, with a value still
\* in the ring
C21_Witness ==
    /\ p_res.set /\ ~p_res.ok
    /\ ppc = "idle"
    /\ Len(popped) > 0
    /\ tail # next_head

\* ----------------------------------------------------------------- C22
\* C22: index arithmetic: for every index i in 0..capacity-1 the bounded
\* advance (i+1) * ((i+1) < capacity) equals (i+1) mod capacity, and for
\* every i in 0..SEGMENT_SIZE-1 the segment advance (i+1) & MASK equals
\* (i+1) mod SEGMENT_SIZE; hence after any sequence of pushes and pops
\* next_head and tail stay within 0..capacity-1, and every segment's
\* next_head and tail within 0..SEGMENT_SIZE-1.
C22_IndexArithmetic ==
    /\ \A i \in 0..(capacity - 1) : Advance(i, capacity) = (i + 1) % capacity
    /\ \A i \in 0..(SEGMENT_SIZE - 1) : SegAdvance(i) = (i + 1) % SEGMENT_SIZE
    /\ next_head \in 0..(capacity - 1)
    /\ tail \in 0..(capacity - 1)
    /\ p_next_head \in 0..(capacity - 1)
    /\ \A p \in 1..Len(segments) :
          /\ segments[p].next_head \in 0..(SEGMENT_SIZE - 1)
          /\ segments[p].tail \in 0..(SEGMENT_SIZE - 1)

\* the bounded head index has wrapped past the end of the buffer and the tail
\* index has advanced
C22_Witness ==
    /\ capacity = MaxCap
    /\ next_head < tail
    /\ Len(pushed) >= capacity
    /\ ppc = "idle" /\ cpc = "idle"

\* ----------------------------------------------------------------- C23
\* the producer / the consumer is inside a call
InPush == u_prod.pc \notin {"idle", "dropped"}
InPop == u_cons.pc \notin {"idle", "dropped"}

\* C23: unbounded queue, any interleaving of producer and consumer atomic
\* steps: the producer never reads or writes a segment (its indices, slots or
\* next link) after the consumer has freed it, and the consumer never
\* dereferences a segment it has already freed: no access so far has hit a
\* freed segment, and the segments a call in progress works on (the one the
\* producer pushes into, the head the consumer popped from and the one it
\* moved to) are not freed.
C23_NoUseAfterFree ==
    /\ ~uaf
    /\ InPush => segments[u_prod.seg].live
    /\ InPop => /\ segments[u_cons.seg].live
                /\ segments[u_cons.head].live
    /\ segments[q_tail].live
    /\ \A p \in 1..Len(segments) : segments[p].frees <= 1

\* the consumer has freed the first segment while the producer is inside
\* Segment::push on a later one, and the consumer is inside a pop again
C23_Witness ==
    /\ ~segments[1].live
    /\ u_prod.pc = "seg_write"
    /\ InPop

\* ----------------------------------------------------------------- C24
\* the values of the slots a bounded drop destructed
RECURSIVE DestructedValues(_)
DestructedValues(d) ==
    IF d = <<>> THEN <<>> ELSE <<Head(d).val>> \o DestructedValues(Tail(d))

\* the queues were dropped
DroppedB == ppc = "dropped"
DroppedU == u_prod.pc = "dropped"

\* C24: value accounting over a queue's whole life (unbounded, and bounded
\* with capacity >= 2), for any interleaving of pushes and pops followed by
\* drop of the queue: every successfully pushed value is either returned by
\* exactly one pop or destructed exactly once by a segment/queue drop, never
\* both and never neither.  Bounded: the k-th accepted value is the k-th
\* popped one, or after the drop the one destructed in its slot.  Unbounded
\* (the values sent are distinct): no value is popped twice, destructed
\* twice, or both; only pushed values are popped or destructed; after the
\* drop every pushed value is one or the other.
C24_ValueAccounting ==
    /\ capacity >= 2 =>
          /\ IsPrefix(popped, pushed)
          /\ ~DroppedB => destructed = <<>>
          /\ DroppedB =>
                /\ popped \o DestructedValues(destructed) = pushed
                /\ \A k \in 1..Len(destructed) :
                      destructed[k].slot = SlotOfPush(Len(popped) + k)
    /\ \A i \in 1..Len(u_popped) : Count(u_pushed, u_popped[i]) = 1
    /\ \A i \in 1..Len(dropped) : Count(u_pushed, dropped[i]) = 1
    /\ \A i \in 1..Len(u_pushed) :
          /\ Count(u_popped, u_pushed[i]) + Count(dropped, u_pushed[i]) <= 1
          /\ DroppedU =>
                Count(u_popped, u_pushed[i]) + Count(dropped, u_pushed[i]) = 1

\* the unbounded queue was dropped after pops returned values, a pop's
\* segment drop destructed values, and the queue drop destructed more
C24_Witness ==
    /\ DroppedU
    /\ Len(u_popped) > 0
    /\ FreedCount >= 2
    /\ Len(dropped) >= 2
    /\ Len(u_popped) + Len(dropped) = Len(u_pushed)

\* ----------------------------------------------------------------- C25
\* the producer was told "not full" and no send was accepted since; the
\* consumer was told "not empty" and no value was received since
ToldNotFull == noted["sender"].set /\ noted["sender"].at = Len(pushed)
ToldNotEmpty == noted["receiver"].set /\ noted["receiver"].at = Len(popped)

\* the step on which send returns Err / recv returns None
SendReturnsErr == ppc # "idle" /\ ppc' = "idle" /\ ~p_res'.ok
RecvReturnsNone == cpc # "idle" /\ cpc' = "idle" /\ ~c_res'.ok

\* C25: bounded channel with capacity >= 2 under concurrent use: if the
\* producer observes is_full() == false, its next send succeeds no matter
\* what the consumer does in between; and if the consumer observes
\* is_empty() == false, its next recv returns a value no matter what the
\* producer does in between (from the answer until that send / recv the queue
\* stays not full, resp. not empty, whatever the other side does).
C25_AnswerHoldsForNextCall ==
    [][capacity >= 2 =>
          /\ ToldNotFull =>
                /\ Advance(next_head, capacity) # tail
                /\ ~SendReturnsErr
          /\ ToldNotEmpty =>
                /\ next_head # tail
                /\ ~RecvReturnsNone
      ]_vars

\* the producer is inside the send that follows a "not full" answer and the
\* consumer inside the recv that follows a "not empty" answer, after the
\* other side was at work
C25_Witness ==
    /\ capacity >= 2
    /\ ToldNotFull /\ ppc = "insert"
    /\ ToldNotEmpty /\ cpc = "get"
    /\ Len(popped) > 0

====
